---- MODULE Spec2Model ----
(***************************************************************************)
(* F1-Predictor: the feature engineering pipeline (feature_engineering.py) *)
(* over the raw results table built by data_collector.py.                  *)
(*                                                                         *)
(* A table (pandas DataFrame) is a sequence of rows; a row is a record.    *)
(* A numeric cell is NaN (the empty tuple) or a reduced fraction <<n, d>>  *)
(* with d >= 1, so that means and ratios are exact.                        *)
(***************************************************************************)
EXTENDS Integers, Sequences, FiniteSets, TLC

VARIABLES
    df,         \* the raw results table (collect_historical_data's result)
    out,        \* the table as create_features has transformed it so far
    pc,         \* position in create_features
    window,     \* the window calculate_driver_recent_form was called with
    self,       \* the F1Predictor instance: its model_type, model, feature_names, is_trained
    disk,       \* the artifacts of config.MODEL_DIR, by the model type of their path
    result      \* the last call on the predictor: its arguments, what it raised or returned

vars == <<df, out, pc, window, self, disk, result>>

\* ---------------------------------------------------------------- numbers

NaN == <<>>

Abs(n) == IF n < 0 THEN -n ELSE n

Max2(a, b) == IF a >= b THEN a ELSE b

RECURSIVE GCD(_, _)
GCD(a, b) == IF b = 0 THEN a ELSE GCD(b, a % b)

\* n / d as a reduced fraction, d > 0
Frac(n, d) ==
    LET g == GCD(Abs(n), d)
    IN  <<n \div g, d \div g>>

Num(n) == <<n, 1>>

Add(a, b) == Frac(a[1] * b[2] + b[1] * a[2], a[2] * b[2])

Sub(a, b) == Frac(a[1] * b[2] - b[1] * a[2], a[2] * b[2])

Less(a, b) == a[1] * b[2] < b[1] * a[2]

\* float arithmetic propagates NaN
NanSub(a, b) == IF a = NaN \/ b = NaN THEN NaN ELSE Sub(a, b)

\* ---------------------------------------------------------- pandas Series

NotNa(s) == SelectSeq(s, LAMBDA x : x # NaN)

RECURSIVE SumSeq(_)
SumSeq(s) == IF s = <<>> THEN Num(0) ELSE Add(Head(s), SumSeq(Tail(s)))

RECURSIVE MinSeq(_)
MinSeq(s) ==
    IF Len(s) = 1 THEN s[1]
    ELSE LET m == MinSeq(Tail(s))
         IN  IF Less(m, Head(s)) THEN m ELSE Head(s)

RECURSIVE MaxSeq(_)
MaxSeq(s) ==
    IF Len(s) = 1 THEN s[1]
    ELSE LET m == MaxSeq(Tail(s))
         IN  IF Less(Head(s), m) THEN m ELSE Head(s)

\* Series.mean / min / max / sum skip NaN; mean, min and max of no value are NaN
mean(s) ==
    LET v == NotNa(s)
    IN  IF v = <<>> THEN NaN
        ELSE LET t == SumSeq(v) IN Frac(t[1], t[2] * Len(v))

min(s) == LET v == NotNa(s) IN IF v = <<>> THEN NaN ELSE MinSeq(v)

max(s) == LET v == NotNa(s) IN IF v = <<>> THEN NaN ELSE MaxSeq(v)

sum(s) == SumSeq(NotNa(s))

\* the series itself: the .shift(1) left out
no_shift(s) == s

\* Series.shift(1)
shift(s) == [k \in 1..Len(s) |-> IF k = 1 THEN NaN ELSE s[k - 1]]

\* Series.rolling(window=w).mean(): min_periods left at its default, the window
rolling_mean_full(s, w) ==
    [k \in 1..Len(s) |->
        IF Len(NotNa(SubSeq(s, Max2(1, k - w + 1), k))) < w THEN NaN
        ELSE mean(SubSeq(s, Max2(1, k - w + 1), k))]

\* Series.rolling(window=w, min_periods=1).mean()
rolling_mean(s, w) ==
    [k \in 1..Len(s) |-> mean(SubSeq(s, Max2(1, k - w + 1), k))]

\* Series.expanding().mean() and .min()  (min_periods=1)
expanding_mean(s) == [k \in 1..Len(s) |-> mean(SubSeq(s, 1, k))]

\* the last value in place of the running minimum
expanding_last(s) == s

expanding_min(s) == [k \in 1..Len(s) |-> min(SubSeq(s, 1, k))]

\* Series.cumsum(): NaN cells stay NaN and are skipped
cumsum(s) ==
    [k \in 1..Len(s) |-> IF s[k] = NaN THEN NaN ELSE sum(SubSeq(s, 1, k))]

\* ------------------------------------------------------- pandas DataFrame

Col(tbl, c) == [k \in 1..Len(tbl) |-> tbl[k][c]]

RECURSIVE concat(_)
concat(tbls) == IF tbls = <<>> THEN <<>> ELSE Head(tbls) \o concat(Tail(tbls))

\* (Year, Round) order
KeyLess(a, b) == a.Year < b.Year \/ (a.Year = b.Year /\ a.Round < b.Round)

SameRace(a, b) == a.Year = b.Year /\ a.Round = b.Round

InsertByKey(s, r) ==
    SelectSeq(s, LAMBDA x : ~KeyLess(r, x)) \o <<r>> \o SelectSeq(s, LAMBDA x : KeyLess(r, x))

RECURSIVE SortPrefix(_, _)
SortPrefix(tbl, n) ==
    IF n = 0 THEN <<>> ELSE InsertByKey(SortPrefix(tbl, n - 1), tbl[n])

\* df.sort_values(['Year', 'Round']): rows of equal key keep their order
sort_values(tbl) == SortPrefix(tbl, Len(tbl))

\* Series.unique(): the distinct values in order of first appearance
RECURSIVE unique(_)
unique(s) ==
    IF s = <<>> THEN <<>>
    ELSE LET u == unique(SubSeq(s, 1, Len(s) - 1))
             x == s[Len(s)]
         IN  IF \E i \in 1..Len(u) : u[i] = x THEN u ELSE Append(u, x)

\* the lexicographic order of the strings of the model
StrOrder ==
    <<"Bahrain Grand Prix", "Ferrari", "HAM", "Mercedes", "RUS",
      "Saudi Arabian Grand Prix">>

Ord(str) == CHOOSE i \in 1..Len(StrOrder) : StrOrder[i] = str

\* assigning columns: new values replace a column of the same name
AddCols(tbl, new) == [k \in 1..Len(tbl) |-> new[k] @@ tbl[k]]

\* ------------------------------------------- feature_engineering.py (temporal)

RECENT_RACES_WINDOW == 5

\* the rolling form of one driver's rows (the loop body)
DriverForm(driver_data, w) ==
    AddCols(driver_data,
        LET pos == shift(rolling_mean(Col(driver_data, "Position"), w))
            pts == shift(rolling_mean(Col(driver_data, "Points"), w))
            win == shift(rolling_mean(Col(driver_data, "IsWinner"), w))
            pod == shift(rolling_mean(Col(driver_data, "IsPodium"), w))
        IN  [k \in 1..Len(driver_data) |->
                [RecentAvgPosition |-> pos[k], RecentAvgPoints |-> pts[k],
                 RecentWinRate |-> win[k], RecentPodiumRate |-> pod[k]]])

calculate_driver_recent_form(tbl, w) ==
    LET sorted == sort_values(tbl)
        drivers == unique(Col(sorted, "Driver"))
    IN  concat([i \in 1..Len(drivers) |->
            DriverForm(SelectSeq(sorted, LAMBDA r : r.Driver = drivers[i]), w)])

\* the keys of a two-column groupby come in sorted order; a key is the pair of
\* the ranks of its values (Ord of a string, the integer itself)
PairLess(a, b) == a[1] < b[1] \/ (a[1] = b[1] /\ a[2] < b[2])

RECURSIVE SortKeys(_)
SortKeys(S) ==
    IF S = {} THEN <<>>
    ELSE LET m == CHOOSE x \in S : \A y \in S \ {x} : PairLess(x, y)
         IN  <<m>> \o SortKeys(S \ {m})

\* range(len(tbl)) counting from 1
range_len_from1(tbl) == [k \in 1..Len(tbl) |-> Num(k)]

\* range(len(tbl)) as a column
range_len(tbl) == [k \in 1..Len(tbl) |-> Num(k - 1)]

\* the expanding statistics of one driver's rows at one track (the loop body)
DriverTrack(driver_track_data) ==
    AddCols(driver_track_data,
        LET avg == shift(expanding_mean(Col(driver_track_data, "Position")))
            best == shift(expanding_min(Col(driver_track_data, "Position")))
            win == shift(expanding_mean(Col(driver_track_data, "IsWinner")))
            cnt == range_len(driver_track_data)
        IN  [k \in 1..Len(driver_track_data) |->
                [TrackAvgPosition |-> avg[k], TrackBestPosition |-> best[k],
                 TrackWinRate |-> win[k], TrackRaceCount |-> cnt[k]]])

calculate_historical_track_performance(tbl) ==
    LET sorted == sort_values(tbl)
        keys == SortKeys({<<Ord(sorted[k].Driver), Ord(sorted[k].EventName)>> :
                            k \in 1..Len(sorted)})
    IN  concat([i \in 1..Len(keys) |->
            DriverTrack(SelectSeq(sorted,
                LAMBDA r : Ord(r.Driver) = keys[i][1] /\ Ord(r.EventName) = keys[i][2]))])

\* groupby(by)[c].transform('sum'): every row gets the sum of c over its group
TransformSum(tbl, by, c) ==
    [k \in 1..Len(tbl) |->
        sum(Col(SelectSeq(tbl, LAMBDA r : r[by] = tbl[k][by]), c))]

\* groupby(by)[c].transform('max')
TransformMax(tbl, by, c) ==
    [k \in 1..Len(tbl) |->
        max(Col(SelectSeq(tbl, LAMBDA r : r[by] = tbl[k][by]), c))]

\* groupby(by)[c].cumsum(): the running sum of c within the row's group
GroupCumsum(tbl, by, c) ==
    [k \in 1..Len(tbl) |->
        IF tbl[k][c] = NaN THEN NaN
        ELSE sum(Col(SelectSeq(SubSeq(tbl, 1, k), LAMBDA r : r[by] = tbl[k][by]), c))]

\* groupby(by)[c].rank(ascending=False): method left at its default, 'average'
GroupRankAverage(tbl, by, c) ==
    [k \in 1..Len(tbl) |->
        IF tbl[k][c] = NaN THEN NaN
        ELSE LET ahead == Cardinality({j \in 1..Len(tbl) :
                            /\ tbl[j][by] = tbl[k][by]
                            /\ tbl[j][c] # NaN
                            /\ Less(tbl[k][c], tbl[j][c])})
                 level == Cardinality({j \in 1..Len(tbl) :
                            tbl[j][by] = tbl[k][by] /\ tbl[j][c] = tbl[k][c]})
             IN  Frac(2 * ahead + level + 1, 2)]

\* groupby(by)[c].rank(ascending=False, method='min'): NaN keeps NaN
GroupRankDesc(tbl, by, c) ==
    [k \in 1..Len(tbl) |->
        IF tbl[k][c] = NaN THEN NaN
        ELSE Num(1 + Cardinality({j \in 1..Len(tbl) :
                    /\ tbl[j][by] = tbl[k][by]
                    /\ tbl[j][c] # NaN
                    /\ Less(tbl[k][c], tbl[j][c])}))]

\* the cumulative statistics of one team's rows in one season (the loop body)
TeamYear(team_year_data) ==
    AddCols(team_year_data,
        LET pts == shift(cumsum(TransformSum(team_year_data, "Round", "Points")))
            wins == shift(cumsum(Col(team_year_data, "IsWinner")))
            avg == shift(expanding_mean(Col(team_year_data, "Position")))
        IN  [k \in 1..Len(team_year_data) |->
                [TeamSeasonPoints |-> pts[k], TeamSeasonWins |-> wins[k],
                 TeamAvgPosition |-> avg[k]]])

calculate_team_strength(tbl) ==
    LET sorted == sort_values(tbl)
        keys == SortKeys({<<Ord(sorted[k].Team), sorted[k].Year>> : k \in 1..Len(sorted)})
    IN  concat([i \in 1..Len(keys) |->
            TeamYear(SelectSeq(sorted,
                LAMBDA r : Ord(r.Team) = keys[i][1] /\ r.Year = keys[i][2]))])

\* the standings of one season's rows (the loop body)
YearStandings(year_data) ==
    LET withPoints ==
            AddCols(year_data,
                LET cp == shift(GroupCumsum(year_data, "Driver", "Points"))
                IN  [k \in 1..Len(year_data) |-> [ChampionshipPoints |-> cp[k]]])
        withRank ==
            AddCols(withPoints,
                LET rk == GroupRankDesc(withPoints, "Round", "ChampionshipPoints")
                    ld == TransformMax(withPoints, "Round", "ChampionshipPoints")
                IN  [k \in 1..Len(withPoints) |->
                        [ChampionshipPosition |-> rk[k], LeaderPoints |-> ld[k]]])
    IN  AddCols(withRank,
            [k \in 1..Len(withRank) |->
                [PointsToLeader |->
                    NanSub(withRank[k].LeaderPoints, withRank[k].ChampionshipPoints)]])

calculate_championship_position(tbl) ==
    LET sorted == sort_values(tbl)
        years == unique(Col(sorted, "Year"))
    IN  concat([i \in 1..Len(years) |->
            YearStandings(SelectSeq(sorted, LAMBDA r : r.Year = years[i]))])

\* ------------------------------------------------ data_collector.py (results)

\* the races the provider serves: (Year, Round, EventName) in calendar order
Calendar ==
    << [Year |-> 2023, Round |-> 1, EventName |-> "Bahrain Grand Prix"],
       [Year |-> 2024, Round |-> 1, EventName |-> "Bahrain Grand Prix"],
       [Year |-> 2024, Round |-> 2, EventName |-> "Saudi Arabian Grand Prix"],
       [Year |-> 2025, Round |-> 4, EventName |-> "Bahrain Grand Prix"] >>

Drivers == {"HAM", "RUS"}

\* team-mates until HAM changes team for 2025
TeamOf(driver, year) ==
    IF driver = "HAM" /\ year = 2025 THEN "Ferrari" ELSE "Mercedes"

\* what a classification can hold for one driver: a finish position (NaN when
\* the driver did not finish) and the points scored
Results ==
    { [Position |-> NaN, Points |-> Num(0)],
      [Position |-> Num(1), Points |-> Num(25)],
      [Position |-> Num(2), Points |-> Num(18)],
      [Position |-> Num(3), Points |-> Num(15)],
      [Position |-> Num(4), Points |-> Num(12)] }

Bool2Int(b) == IF b THEN Num(1) ELSE Num(0)

\* one row of extract_race_results: a comparison with NaN is False
RaceRow(race, driver, res) ==
    [Driver |-> driver, Team |-> TeamOf(driver, race.Year),
     Year |-> race.Year, Round |-> race.Round, EventName |-> race.EventName,
     Position |-> res.Position, Points |-> res.Points,
     IsWinner |-> Bool2Int(res.Position = Num(1)),
     IsPodium |-> Bool2Int(res.Position # NaN /\ ~Less(Num(3), res.Position))]

\* a classification lists its drivers in finishing order: no two share a
\* position, and those who did not finish come last
Classified(r1, r2) ==
    /\ r1.Position # NaN \/ r2.Position = NaN
    /\ r2.Position # NaN => Less(r1.Position, r2.Position)

\* the classifications of one race, over every non-empty set of drivers
RaceTables(race) ==
    UNION { { <<RaceRow(race, d, r)>> : r \in Results } : d \in Drivers }
    \cup { <<RaceRow(race, t[1], t[3]), RaceRow(race, t[2], t[4])>> :
             t \in { u \in Drivers \X Drivers \X Results \X Results :
                        u[1] # u[2] /\ Classified(u[3], u[4]) } }

MaxRows == 3

\* the windows calculate_driver_recent_form is called with: one shorter than a
\* driver's history, and the configured default
Windows == {2, RECENT_RACES_WINDOW}

\* ----------------------------------------- feature_engineering.py (qualifying)

HasColumn(tbl, c) == tbl # <<>> /\ c \in DOMAIN tbl[1]

\* the minimum of c over the whole table: the groupby left out
TableMin(tbl, c) == [k \in 1..Len(tbl) |-> min(Col(tbl, c))]

\* groupby(['Year', 'Round'])[c].transform('min')
RaceTransformMin(tbl, c) ==
    [k \in 1..Len(tbl) |->
        min(Col(SelectSeq(tbl, LAMBDA r : SameRace(r, tbl[k])), c))]

\* groupby(['Year', 'Round'])[c].transform('max')
RaceTransformMax(tbl, c) ==
    [k \in 1..Len(tbl) |->
        max(Col(SelectSeq(tbl, LAMBDA r : SameRace(r, tbl[k])), c))]

\* 1 - (position - 1) / top, in floats: NaN propagates
Percentile(position, top) ==
    IF position = NaN \/ top = NaN THEN NaN
    ELSE Sub(Num(1), Frac((position[1] - 1) * top[2], position[2] * top[1]))

calculate_qualifying_features(tbl) ==
    LET withGap ==
            IF HasColumn(tbl, "Q3_seconds")
            THEN AddCols(tbl,
                    LET best == RaceTransformMin(tbl, "Q3_seconds")
                    IN  [k \in 1..Len(tbl) |->
                            [QualifyingBestTime |-> best[k],
                             QualifyingGap |-> NanSub(tbl[k].Q3_seconds, best[k])]])
            ELSE tbl
        withPercentile ==
            IF HasColumn(withGap, "QualifyingPosition")
            THEN AddCols(withGap,
                    LET top == RaceTransformMax(withGap, "QualifyingPosition")
                    IN  [k \in 1..Len(withGap) |->
                            [QualifyingPercentile |->
                                Percentile(withGap[k].QualifyingPosition, top[k])]])
            ELSE withGap
    IN  IF HasColumn(withPercentile, "GridPosition")
            /\ HasColumn(withPercentile, "QualifyingPosition")
        THEN AddCols(withPercentile,
                [k \in 1..Len(withPercentile) |->
                    [GridVsQualifying |->
                        NanSub(withPercentile[k].GridPosition,
                               withPercentile[k].QualifyingPosition)]])
        ELSE withPercentile

\* --------------------------------------------- data_collector.py (qualifying)

\* x.total_seconds() of a lap time given in milliseconds
Seconds(ms) == Frac(ms, 1000)

\* what a qualifying classification can hold for one driver, best first: a lap
\* in each part reached, the best lap in Q3 or in Q2; out in Q2; out in Q1
QualifyingLaps ==
    << [Q1_seconds |-> Seconds(90500), Q2_seconds |-> Seconds(89900),
        Q3_seconds |-> Seconds(89200)],
       [Q1_seconds |-> Seconds(90400), Q2_seconds |-> Seconds(89000),
        Q3_seconds |-> Seconds(89400)],
       [Q1_seconds |-> Seconds(90800), Q2_seconds |-> Seconds(90100),
        Q3_seconds |-> NaN],
       [Q1_seconds |-> Seconds(91500), Q2_seconds |-> NaN, Q3_seconds |-> NaN] >>

\* the drivers of a race, as its result lists them
Grid == <<"VER", "LEC", "NOR", "HAM", "RUS", "PIA">>

\* pd.concat and a left merge fill the cells a row has no value for with NaN
FillColumns(tbl, cols) ==
    [k \in 1..Len(tbl) |->
        [c \in cols \cup DOMAIN tbl[k] |->
            IF c \in DOMAIN tbl[k] THEN tbl[k][c] ELSE NaN]]

concat_fill(a, b) ==
    LET cols == UNION {DOMAIN r : r \in {a[k] : k \in 1..Len(a)} \cup {b[k] : k \in 1..Len(b)}}
    IN  FillColumns(a, cols) \o FillColumns(b, cols)

\* the rows of one race of n drivers merged with its qualifying results, the
\* first Len(laps) drivers in qualifying order with laps[k] their laps, the
\* others not in the qualifying results; swapped: the front row starts in
\* reverse order (a grid penalty)
MergedRace(race, n, laps, swapped) ==
    [k \in 1..n |->
        [Driver |-> Grid[k], Year |-> race.Year, Round |-> race.Round,
         GridPosition |-> IF swapped /\ k <= 2 THEN Num(3 - k) ELSE Num(k),
         QualifyingPosition |-> IF k <= Len(laps) THEN Num(k) ELSE NaN,
         Q1_seconds |-> IF k <= Len(laps) THEN QualifyingLaps[laps[k]].Q1_seconds ELSE NaN,
         Q2_seconds |-> IF k <= Len(laps) THEN QualifyingLaps[laps[k]].Q2_seconds ELSE NaN,
         Q3_seconds |-> IF k <= Len(laps) THEN QualifyingLaps[laps[k]].Q3_seconds ELSE NaN]]

\* the rows of one race of n drivers whose qualifying session gave nothing
UnmergedRace(race, n) ==
    [k \in 1..n |->
        [Driver |-> Grid[k], Year |-> race.Year, Round |-> race.Round,
         GridPosition |-> Num(k)]]

\* qualifying classifications of q drivers: better laps come first, and the
\* first driver has a lap in Q3
Classifications(q) ==
    {laps \in [1..q -> 1..Len(QualifyingLaps)] :
        /\ \A k \in 1..(q - 1) : laps[k] <= laps[k + 1]
        /\ q >= 1 => QualifyingLaps[laps[1]].Q3_seconds # NaN}

MaxQualiRows == 4

\* ------------------------------------------- feature_engineering.py (context)

\* a boolean cell, and a categorical cell holding a label
True == <<TRUE>>

False == <<FALSE>>

Label(str) == <<str>>

\* pd.cut(x, bins, labels) of one value: the bins are the intervals
\* (bins[i], bins[i+1]], open on the left; a value in no bin, or a null, has
\* no category
cut(x, bins, labels) ==
    IF x = NaN THEN NaN
    ELSE IF \E i \in 1..Len(labels) :
                Less(Num(bins[i]), x) /\ ~Less(Num(bins[i + 1]), x)
         THEN Label(labels[CHOOSE i \in 1..Len(labels) :
                        Less(Num(bins[i]), x) /\ ~Less(Num(bins[i + 1]), x)])
         ELSE NaN

\* the columns of a table
Columns(tbl) == IF tbl = <<>> THEN {} ELSE DOMAIN tbl[1]

\* pd.get_dummies(df, columns=[c], prefix=...) of a categorical column: c is
\* replaced by one indicator column for each category, observed or not; a row
\* without a category has every indicator False
get_dummies(tbl, c, names, labels) ==
    [k \in 1..Len(tbl) |->
        [col \in (DOMAIN tbl[k] \ {c}) \cup {names[i] : i \in 1..Len(names)} |->
            IF col \in DOMAIN tbl[k] \ {c} THEN tbl[k][col]
            ELSE IF tbl[k][c] = Label(labels[CHOOSE i \in 1..Len(names) : names[i] = col])
                 THEN True ELSE False]]

\* Series.astype(int) raises ValueError when a value is null
astype_int_raises(s) == \E k \in 1..Len(s) : s[k] = NaN

\* astype(int) of a boolean
astype_int(b) == IF b = True THEN Num(1) ELSE Num(0)

TempBins == <<0, 25, 40, 100>>

TempLabels == <<"cold", "mild", "hot">>

TempDummies == <<"Temp_cold", "Temp_mild", "Temp_hot">>

\* the wind speed, in m/s, above which HighWinds is set
HighWindsThreshold == 5

\* whether calculate_weather_features raises
calculate_weather_features_raises(tbl) ==
    HasColumn(tbl, "Rainfall") /\ astype_int_raises(Col(tbl, "Rainfall"))

\* calculate_weather_features, when it returns; a comparison with a null is
\* False
calculate_weather_features(tbl) ==
    LET withWet ==
            IF HasColumn(tbl, "Rainfall")
            THEN AddCols(tbl, [k \in 1..Len(tbl) |->
                                [IsWetRace |-> astype_int(tbl[k].Rainfall)]])
            ELSE tbl
        withTemp ==
            IF HasColumn(withWet, "TrackTemp")
            THEN get_dummies(
                    AddCols(withWet, [k \in 1..Len(withWet) |->
                        [TempCategory |-> cut(withWet[k].TrackTemp, TempBins, TempLabels)]]),
                    "TempCategory", TempDummies, TempLabels)
            ELSE withWet
    IN  IF HasColumn(withTemp, "WindSpeed")
        THEN AddCols(withTemp, [k \in 1..Len(withTemp) |->
                [HighWinds |->
                    IF withTemp[k].WindSpeed # NaN
                        /\ Less(Num(HighWindsThreshold), withTemp[k].WindSpeed)
                    THEN Num(1) ELSE Num(0)]])
        ELSE withTemp

PitBins == <<0, 1, 2, 3, 10>>

PitLabels == <<"one_stop", "two_stop", "three_stop", "multi_stop">>

\* the count a missing PitStopCount is replaced with
PitStopFill == 2

\* Series.fillna(value)
fillna(x, value) == IF x = NaN THEN value ELSE x

calculate_pit_stop_features(tbl) ==
    IF HasColumn(tbl, "PitStopCount")
    THEN AddCols(tbl, [k \in 1..Len(tbl) |->
            [PitStopStrategy |->
                cut(fillna(tbl[k].PitStopCount, Num(PitStopFill)), PitBins, PitLabels)]])
    ELSE tbl

\* the practice lap columns, in column order
PracticeCols == <<"FP1_LapTime_seconds", "FP2_LapTime_seconds", "FP3_LapTime_seconds">>

\* [col for col in df.columns if 'FP' in col and 'LapTime_seconds' in col]
practice_cols(tbl) == SelectSeq(PracticeCols, LAMBDA c : HasColumn(tbl, c))

\* the values of one row in the columns cols
RowValues(row, cols) == [i \in 1..Len(cols) |-> row[cols[i]]]

Mul(a, b) == Frac(a[1] * b[1], a[2] * b[2])

Div(a, b) == Frac(a[1] * b[2], a[2] * b[1])

\* the square root of a fraction that is the square of a fraction
Sqrt(q) ==
    <<CHOOSE r \in 0..q[1] : r * r = q[1], CHOOSE r \in 1..q[2] : r * r = q[2]>>

\* DataFrame.std(axis=1): the sample standard deviation of the non-null
\* values, null when there are fewer than two
std(s) ==
    LET v == NotNa(s)
        m == mean(v)
        sq == [i \in 1..Len(v) |-> Mul(Sub(v[i], m), Sub(v[i], m))]
    IN  IF Len(v) < 2 THEN NaN
        ELSE Sqrt(Div(SumSeq(sq), Num(Len(v) - 1)))

\* groupby(['Year', 'Round'])[c].rank(pct=True): the average rank among the
\* non-null values of the race, over their number; a null has no rank
RaceRankPct(tbl, c) ==
    [k \in 1..Len(tbl) |->
        LET v == NotNa(Col(SelectSeq(tbl, LAMBDA r : SameRace(r, tbl[k])), c))
            x == tbl[k][c]
            below == Len(SelectSeq(v, LAMBDA y : Less(y, x)))
            equal == Len(SelectSeq(v, LAMBDA y : y = x))
        IN  IF x = NaN THEN NaN
            ELSE Frac(2 * below + equal + 1, 2 * Len(v))]

calculate_practice_pace(tbl) ==
    LET cols == practice_cols(tbl)
        withBest == AddCols(tbl, [k \in 1..Len(tbl) |->
                        [BestPracticeTime |-> min(RowValues(tbl[k], cols))]])
        pct == RaceRankPct(withBest, "BestPracticeTime")
    IN  IF cols # <<>>
        THEN AddCols(withBest, [k \in 1..Len(tbl) |->
                [BestPracticePace |-> NanSub(Num(1), pct[k]),
                 PracticeConsistency |-> std(RowValues(tbl[k], cols))]])
        ELSE tbl

\* ------------------------------------------------------------ Python values

\* Python's None
None == [type |-> "NoneType"]

\* the model types an artifact path can be made from
ArtifactTypes == {"random_forest", "xgboost", "svm"}

\* ----------------------------------------------------------- state machine

Init ==
    /\ df = <<>>
    /\ out = <<>>
    /\ pc = "collect"
    /\ window = 0
    /\ self = None
    /\ disk = [t \in ArtifactTypes |-> None]
    /\ result = [call |-> "None", args |-> <<>>, error |-> "None", value |-> "None"]

\* collect_season_data's loop body: one more race, in calendar order, appended
\* to the table; a race without results is skipped
collect_race_data ==
    /\ pc = "collect"
    /\ \E i \in 1..Len(Calendar) :
          /\ IF df = <<>> THEN TRUE ELSE KeyLess(df[Len(df)], Calendar[i])
          /\ \E rows \in RaceTables(Calendar[i]) :
                /\ Len(df) + Len(rows) <= MaxRows
                /\ df' = df \o rows
    /\ UNCHANGED <<out, pc, window, self, disk, result>>

\* create_features up to its first transform; an empty table is returned as is
create_features_form ==
    /\ pc = "collect"
    /\ df # <<>>
    /\ \E w \in Windows :
          /\ window' = w
          /\ out' = calculate_driver_recent_form(df, w)
    /\ pc' = "form"
    /\ UNCHANGED <<df, self, disk, result>>

create_features_track ==
    /\ pc = "form"
    /\ out' = calculate_historical_track_performance(out)
    /\ pc' = "track"
    /\ UNCHANGED <<df, window, self, disk, result>>

create_features_team ==
    /\ pc = "track"
    /\ out' = calculate_team_strength(out)
    /\ pc' = "team"
    /\ UNCHANGED <<df, window, self, disk, result>>

create_features_championship ==
    /\ pc = "team"
    /\ out' = calculate_championship_position(out)
    /\ pc' = "championship"
    /\ UNCHANGED <<df, window, self, disk, result>>

Next ==
    \/ collect_race_data
    \/ create_features_form
    \/ create_features_track
    \/ create_features_team
    \/ create_features_championship

Spec == Init /\ [][Next]_vars

\* collect_race_data as far as the qualifying columns go: the race results
\* merged, on Driver, with the qualifying results when the session gave some,
\* and appended to the table
collect_race_data_qualifying ==
    /\ pc = "collect"
    /\ \E i \in 1..Len(Calendar), n \in 1..MaxQualiRows :
          /\ IF df = <<>> THEN TRUE ELSE KeyLess(df[Len(df)], Calendar[i])
          /\ Len(df) + n <= MaxQualiRows
          /\ \/ df' = concat_fill(df, UnmergedRace(Calendar[i], n))
             \/ \E q \in 0..n, swapped \in BOOLEAN :
                   /\ swapped => q >= 2
                   /\ \E laps \in Classifications(q) :
                         df' = concat_fill(df, MergedRace(Calendar[i], n, laps, swapped))
    /\ UNCHANGED <<out, pc, window, self, disk, result>>

\* create_features' call of calculate_qualifying_features
create_features_qualifying ==
    /\ pc = "collect"
    /\ df # <<>>
    /\ out' = calculate_qualifying_features(df)
    /\ pc' = "qualifying"
    /\ UNCHANGED <<df, window, self, disk, result>>

NextQualifying ==
    \/ collect_race_data_qualifying
    \/ create_features_qualifying

SpecQualifying == Init /\ [][NextQualifying]_vars

\* ------------------------------------------------ data_collector.py (context)

\* extract_weather_data's result for a race: the session means and whether it
\* rained; temperatures in degrees C, wind in m/s
Weather ==
    << [TrackTemp |-> Num(0), WindSpeed |-> Num(3), Rainfall |-> False],
       [TrackTemp |-> Num(25), WindSpeed |-> Num(5), Rainfall |-> True],
       [TrackTemp |-> Frac(51, 2), WindSpeed |-> Frac(11, 2), Rainfall |-> False],
       [TrackTemp |-> Num(45), WindSpeed |-> Num(7), Rainfall |-> True],
       [TrackTemp |-> Num(105), WindSpeed |-> Num(1), Rainfall |-> False] >>

\* extract_pit_stop_data's PitStopCount of the drivers of a race, two by two; a
\* driver without a lap is not in the pit stop data and has a null after the
\* merge
PitStopCounts == <<NaN, Num(0), Num(1), Num(2), Num(3), Num(4), Num(10), Num(11)>>

\* a driver's best laps of FP1, FP2 and FP3 in seconds, null for a session the
\* driver set no time in; the laps are such that their deviation is a fraction
PracticeLaps ==
    << <<Num(91), Num(90), Num(92)>>,
       <<Frac(181, 2), Frac(181, 2), NaN>>,
       <<NaN, Num(91), NaN>>,
       <<NaN, NaN, NaN>> >>

\* the rows of one race of n drivers as collect_race_data merges them: with the
\* qualifying results or without; with the practice laps PracticeLaps[fp..] or,
\* fp = 0, without; with the pit stop counts PitStopCounts[2 * pit - 1..] or,
\* pit = 0, without; with the weather Weather[w] or, w = 0, without
ContextRace(race, n, quali, fp, pit, w) ==
    LET base == IF quali
                THEN MergedRace(race, n, [k \in 1..n |-> k], FALSE)
                ELSE UnmergedRace(race, n)
        withPractice ==
            [k \in 1..n |->
                IF fp = 0 THEN base[k]
                ELSE [FP1_LapTime_seconds |-> PracticeLaps[fp + k - 1][1],
                      FP2_LapTime_seconds |-> PracticeLaps[fp + k - 1][2],
                      FP3_LapTime_seconds |-> PracticeLaps[fp + k - 1][3]] @@ base[k]]
        withPit ==
            [k \in 1..n |->
                IF pit = 0 THEN withPractice[k]
                ELSE [PitStopCount |-> PitStopCounts[2 * pit - 2 + k]] @@ withPractice[k]]
    IN  [k \in 1..n |-> IF w = 0 THEN withPit[k] ELSE Weather[w] @@ withPit[k]]

\* the races of the context tables
ContextCalendar == SubSeq(Calendar, 1, 2)

MaxContextRows == 2

\* ------------------------------------------------- state machine (context)

\* collect_season_data's loop body over collect_race_data: one more race, its
\* sessions merged, appended to the table
collect_race_data_context ==
    /\ pc = "collect"
    /\ \E i \in 1..Len(ContextCalendar), n \in 1..2 :
          /\ IF df = <<>> THEN TRUE ELSE KeyLess(df[Len(df)], ContextCalendar[i])
          /\ Len(df) + n <= MaxContextRows
          /\ \E quali \in BOOLEAN, fp \in 0..(Len(PracticeLaps) - 1),
                pit \in 0..(Len(PitStopCounts) \div 2), w \in 0..Len(Weather) :
                df' = concat_fill(df, ContextRace(ContextCalendar[i], n, quali, fp, pit, w))
    /\ UNCHANGED <<out, pc, window, self, disk, result>>

\* create_features' call of calculate_practice_pace
create_features_practice ==
    /\ pc = "qualifying"
    /\ out' = calculate_practice_pace(out)
    /\ pc' = "practice"
    /\ UNCHANGED <<df, window, self, disk, result>>

\* create_features' call of calculate_weather_features: a ValueError ends
\* create_features
create_features_weather ==
    /\ pc = "practice"
    /\ IF calculate_weather_features_raises(out)
       THEN pc' = "ValueError" /\ UNCHANGED out
       ELSE pc' = "weather" /\ out' = calculate_weather_features(out)
    /\ UNCHANGED <<df, window, self, disk, result>>

\* create_features' call of calculate_pit_stop_features
create_features_pit ==
    /\ pc = "weather"
    /\ out' = calculate_pit_stop_features(out)
    /\ pc' = "pit"
    /\ UNCHANGED <<df, window, self, disk, result>>

NextContext ==
    \/ collect_race_data_context
    \/ create_features_qualifying
    \/ create_features_practice
    \/ create_features_weather
    \/ create_features_pit

SpecContext == Init /\ [][NextContext]_vars

\* -------------------------------------------- feature_engineering.py (training)

get_feature_columns ==
    << "RecentAvgPosition", "RecentAvgPoints", "RecentWinRate", "RecentPodiumRate",
       "TrackAvgPosition", "TrackBestPosition", "TrackWinRate", "TrackRaceCount",
       "TeamSeasonPoints", "TeamSeasonWins", "TeamAvgPosition",
       "QualifyingPosition", "QualifyingGap", "QualifyingPercentile", "GridPosition",
       "BestPracticePace", "PracticeConsistency",
       "AirTemp", "TrackTemp", "Humidity", "WindSpeed", "IsWetRace", "HighWinds",
       "PitStopCount", "PitStopFrequency",
       "ChampionshipPosition", "ChampionshipPoints", "PointsToLeader" >>

\* every column of the table but the label, the canonical ones first
all_but_label(tbl) ==
    SelectSeq(get_feature_columns \o <<"Driver", "Points">>,
              LAMBDA c : c \in Columns(tbl))

\* [col for col in feature_cols if col in df.columns]
available_features(tbl) ==
    SelectSeq(get_feature_columns, LAMBDA c : c \in Columns(tbl))

\* df.dropna(subset=[c]): the rows whose c is not null, in order
dropna(tbl, c) == SelectSeq(tbl, LAMBDA r : r[c] # NaN)

\* the values of s in ascending order
RECURSIVE SortValues(_)
SortValues(s) ==
    IF s = <<>> THEN <<>>
    ELSE LET rest == SortValues(Tail(s))
         IN  SelectSeq(rest, LAMBDA x : Less(x, Head(s))) \o <<Head(s)>>
                \o SelectSeq(rest, LAMBDA x : ~Less(x, Head(s)))

\* Series.median(): the middle of the non-null values in ascending order, the
\* mean of the two middle ones when their number is even; null when all are
\* null
median(s) ==
    LET v == SortValues(NotNa(s))
        n == Len(v)
    IN  IF n = 0 THEN NaN
        ELSE IF n % 2 = 1 THEN v[(n + 1) \div 2]
        ELSE Div(Add(v[n \div 2], v[n \div 2 + 1]), Num(2))

\* the table of the columns cols of tbl, each row the values in that order
Select(tbl, cols) == [k \in 1..Len(tbl) |-> RowValues(tbl[k], cols)]

\* X.fillna(X.median()): a null is replaced by the median of its column, and
\* stays when the column has none
fillna_median(X) ==
    [k \in 1..Len(X) |->
        [i \in 1..Len(X[k]) |->
            fillna(X[k][i], median([j \in 1..Len(X) |-> X[j][i]]))]]

\* the nulls imputed before the rows without a label are dropped
prepare_training_data_fill_first(tbl) ==
    LET features == available_features(tbl)
        filled == fillna_median(Select(tbl, features))
        kept == SelectSeq([k \in 1..Len(tbl) |-> k], LAMBDA k : tbl[k].IsWinner # NaN)
    IN  [X |-> [j \in 1..Len(kept) |-> filled[kept[j]]],
         columns |-> features,
         y |-> Col(dropna(tbl, "IsWinner"), "IsWinner"),
         feature_names |-> features]

\* prepare_training_data's result: X with its column names, y, and the
\* feature names
prepare_training_data(tbl) ==
    LET features == available_features(tbl)
        df_clean == dropna(tbl, "IsWinner")
    IN  [X |-> fillna_median(Select(df_clean, features)),
         columns |-> features,
         y |-> Col(df_clean, "IsWinner"),
         feature_names |-> features]

\* the columns a featured table can have besides Driver and IsWinner
ColumnSets ==
    { {}, {"GridPosition"}, {"GridPosition", "Points"},
      {"TrackTemp", "GridPosition", "Points"} }

\* the rows of a featured table of the columns cols: the label can be null,
\* and so can each feature
TrainingRows(cols) ==
    { [c \in cols \cup {"Driver", "IsWinner"} |->
            [Driver |-> "HAM", IsWinner |-> t[1], GridPosition |-> t[2],
             TrackTemp |-> t[3],
             Points |-> IF t[1] = Num(1) THEN Num(25) ELSE Num(0)][c]] :
        t \in {NaN, Num(0), Num(1)} \X {NaN, Num(1), Num(4)} \X {NaN, Num(30)} }

MaxTrainingRows == 3

\* ------------------------------------------------ state machine (training)

\* one more row of the featured table
featured_row ==
    /\ pc = "collect"
    /\ Len(df) < MaxTrainingRows
    /\ \E cols \in ColumnSets :
          /\ df # <<>> => cols \cup {"Driver", "IsWinner"} = Columns(df)
          /\ \E r \in TrainingRows(cols) : df' = Append(df, r)
    /\ UNCHANGED <<out, pc, window, self, disk, result>>

\* cmd_train's call of prepare_training_data, on a table that is not empty
cmd_train_prepare ==
    /\ pc = "collect"
    /\ df # <<>>
    /\ out' = prepare_training_data(df)
    /\ pc' = "prepared"
    /\ UNCHANGED <<df, window, self, disk, result>>

NextTraining ==
    \/ featured_row
    \/ cmd_train_prepare

SpecTraining == Init /\ [][NextTraining]_vars

\* ------------------------------------------------------------------ model.py

\* config.MODEL_TYPE
MODEL_TYPE == "random_forest"

\* the model types a caller asks for: the two known ones, one that is not,
\* and the empty string
ModelTypes == {"random_forest", "xgboost", "svm", ""}

\* the model_type argument of a call: <<>> when it is None (the default of the
\* parameter), <<s>> when it is the string s
ModelTypeArgs == {<<>>} \cup {<<s>> : s \in ModelTypes}

\* model_type or config.MODEL_TYPE: None and the empty string are falsy
or_default(arg) ==
    IF arg = <<>> THEN MODEL_TYPE
    ELSE IF arg[1] = "" THEN MODEL_TYPE ELSE arg[1]

\* F1Predictor.__init__
F1Predictor(arg) ==
    [model_type |-> or_default(arg),
     model |-> None,
     feature_names |-> None,
     is_trained |-> FALSE]

\* whether _create_model raises ValueError("Unknown model type")
create_model_raises(p) == p.model_type \notin {"random_forest", "xgboost"}

\* _create_model: a classifier that is not fitted yet
create_model(p) ==
    [type |-> IF p.model_type = "random_forest"
              THEN "RandomForestClassifier" ELSE "XGBClassifier",
     fitted |-> FALSE,
     feature_names_in |-> None]

\* a training set (X, y): the columns of X, the number of rows, and the number
\* of rows with y = 1
TrainingSets ==
    { [columns |-> c, n_samples |-> t[1], winners |-> t[2]] :
        c \in {<<>>, <<"GridPosition", "TrackTemp">>},
        t \in {<<0, 0>>, <<5, 1>>, <<10, 0>>, <<10, 2>>} }

\* the fraction of the rows train holds out, in percent
TestSizePercent == 20

\* ceil(test_size * n)
n_test(data) == (data.n_samples * TestSizePercent + 99) \div 100

\* the numbers of rows of the classes of y that have any
ClassCounts(data) == {data.winners, data.n_samples - data.winners} \ {0}

\* the split taken to raise for the stratification alone, an empty set let
\* through
train_test_split_raises_stratify_only(data) ==
    /\ data.n_samples > 0
    /\ \/ \E c \in ClassCounts(data) : c < 2
       \/ data.n_samples - n_test(data) < Cardinality(ClassCounts(data))
       \/ n_test(data) < Cardinality(ClassCounts(data))

\* whether train_test_split(X, y, test_size, stratify=y) raises ValueError: an
\* empty train set, a class of one row only, or fewer train or test rows than
\* classes
train_test_split_raises(data) ==
    \/ data.n_samples - n_test(data) = 0
    \/ \E c \in ClassCounts(data) : c < 2
    \/ data.n_samples - n_test(data) < Cardinality(ClassCounts(data))
    \/ n_test(data) < Cardinality(ClassCounts(data))

\* whether fit raises ValueError: a classifier needs a feature
fit_raises(data) == data.columns = <<>>

\* whether predict_proba(X_test)[:, 1] raises IndexError: a forest fitted on one
\* class gives one column
evaluate_raises(p, data) ==
    p.model_type = "random_forest" /\ Cardinality(ClassCounts(data)) = 1

\* the folds of cross_validate
CrossValidationFolds == 5

\* the outcome of a call: the exception it raised ("None" when it returned),
\* what it returned ("None" when it raised or returns nothing), and the
\* instance and the directory config.MODEL_DIR as the call leaves them
Outcome(error, value, p, d) ==
    [error |-> error, value |-> value, self |-> p, disk |-> d]

\* F1Predictor.train(X, y): the feature names are stored first; the split, the
\* making of the classifier, the fit and the evaluation can each raise
train(p, data, d) ==
    LET named == [p EXCEPT !.feature_names = data.columns]
        made == [named EXCEPT !.model = create_model(named)]
        fitted == [named EXCEPT
                      !.model = [create_model(named) EXCEPT
                                    !.fitted = TRUE,
                                    !.feature_names_in = data.columns],
                      !.is_trained = TRUE]
    IN  IF train_test_split_raises(data)
        THEN Outcome("ValueError: train_test_split", "None", named, d)
        ELSE IF create_model_raises(named)
        THEN Outcome("ValueError: Unknown model type", "None", named, d)
        ELSE IF fit_raises(data)
        THEN Outcome("ValueError: fit", "None", made, d)
        ELSE IF evaluate_raises(fitted, data)
        THEN Outcome("IndexError", "None", fitted, d)
        ELSE Outcome("None", "metrics", fitted, d)

\* F1Predictor.cross_validate(X, y): it fits classifiers of its own and leaves
\* the instance alone
cross_validate(p, data, d) ==
    IF create_model_raises(p)
    THEN Outcome("ValueError: Unknown model type", "None", p, d)
    ELSE IF data.n_samples < CrossValidationFolds \/ fit_raises(data)
    THEN Outcome("ValueError: cross_val_score", "None", p, d)
    ELSE Outcome("None", "cv scores", p, d)

\* whether a call of the classifier on a table of the columns cols raises: the
\* classifier is not fitted, or was fitted on other columns
model_raises(p, cols) ==
    p.model = None \/ ~p.model.fitted \/ p.model.feature_names_in # cols

\* F1Predictor.get_feature_importance
get_feature_importance(p, d) ==
    IF ~p.is_trained
    THEN Outcome("ValueError: Model not trained yet", "None", p, d)
    ELSE IF p.model_type \notin {"random_forest", "xgboost"}
    THEN Outcome("None", "empty DataFrame", p, d)
    ELSE IF p.model = None \/ ~p.model.fitted
    THEN Outcome("NotFittedError", "None", p, d)
    ELSE Outcome("None", "importance", p, d)

\* F1Predictor.predict(X), X of the columns cols
predict(p, cols, d) ==
    IF ~p.is_trained
    THEN Outcome("ValueError: Model not trained yet", "None", p, d)
    ELSE IF model_raises(p, cols)
    THEN Outcome("ValueError: predict", "None", p, d)
    ELSE Outcome("None", "labels", p, d)

\* F1Predictor.predict_proba(X), X of the columns cols
predict_proba(p, cols, d) ==
    IF ~p.is_trained
    THEN Outcome("ValueError: Model not trained yet", "None", p, d)
    ELSE IF model_raises(p, cols)
    THEN Outcome("ValueError: predict", "None", p, d)
    ELSE Outcome("None", "probabilities", p, d)

\* [col for col in feature_cols if col in race_data.columns]
race_available_features(race_columns, feature_cols) ==
    SelectSeq(feature_cols, LAMBDA c : c \in race_columns)

\* F1Predictor.predict_race(race_data, feature_cols): the columns handed to
\* predict_proba are those of feature_cols that race_data has
F1Predictor_predict_race(p, race_columns, feature_cols, d) ==
    LET available == race_available_features(race_columns, feature_cols)
    IN  IF ~p.is_trained
        THEN Outcome("ValueError: Model not trained yet", "None", p, d)
        ELSE IF predict_proba(p, available, d).error # "None"
        THEN predict_proba(p, available, d)
        ELSE Outcome("None", "ranking", p, d)

\* save writing the classifier and its kind without the feature names
save_without_names(p, d) ==
    IF ~p.is_trained
    THEN Outcome("ValueError: Model not trained yet", "None", p, d)
    ELSE Outcome("None", "None", p,
            [d EXCEPT ![p.model_type] =
                [model |-> p.model, model_type |-> p.model_type,
                 feature_names |-> <<>>]])

\* save without the check of is_trained
save_unchecked(p, d) ==
    Outcome("None", "None", p,
        [d EXCEPT ![p.model_type] =
            [model |-> p.model, model_type |-> p.model_type,
             feature_names |-> p.feature_names]])

\* F1Predictor.save(): the artifact is written at the path made from the
\* model type
save(p, d) ==
    IF ~p.is_trained
    THEN Outcome("ValueError: Model not trained yet", "None", p, d)
    ELSE Outcome("None", "None", p,
            [d EXCEPT ![p.model_type] =
                [model |-> p.model, model_type |-> p.model_type,
                 feature_names |-> p.feature_names]])

\* load clearing the instance before it looks for the artifact
load_reset(p, d) ==
    IF d[p.model_type] = None
    THEN Outcome("FileNotFoundError: No model found", "None",
            [p EXCEPT !.model = None, !.is_trained = FALSE], d)
    ELSE Outcome("None", "None",
            [model |-> d[p.model_type].model,
             model_type |-> d[p.model_type].model_type,
             feature_names |-> d[p.model_type].feature_names,
             is_trained |-> TRUE], d)

\* load without the check that the artifact exists: a missing artifact read as
\* an empty one
load_unchecked(p, d) ==
    IF d[p.model_type] = None
    THEN Outcome("None", "None", [p EXCEPT !.is_trained = TRUE], d)
    ELSE Outcome("None", "None",
            [model |-> d[p.model_type].model,
             model_type |-> d[p.model_type].model_type,
             feature_names |-> d[p.model_type].feature_names,
             is_trained |-> TRUE], d)

\* F1Predictor.load(): the artifact is read at the path made from the model
\* type
load(p, d) ==
    IF d[p.model_type] = None
    THEN Outcome("FileNotFoundError: No model found", "None", p, d)
    ELSE Outcome("None", "None",
            [model |-> d[p.model_type].model,
             model_type |-> d[p.model_type].model_type,
             feature_names |-> d[p.model_type].feature_names,
             is_trained |-> TRUE], d)

\* model.train_model(X, y, model_type): a new predictor trained, asked for its
\* feature importance, and saved; an exception of a step ends it
train_model(data, arg, d) ==
    LET trained == train(F1Predictor(arg), data, d)
        importance == get_feature_importance(trained.self, d)
    IN  IF trained.error # "None" THEN trained
        ELSE IF importance.error # "None" THEN importance
        ELSE LET saved == save(trained.self, d)
             IN  IF saved.error # "None" THEN saved
                 ELSE Outcome("None", "predictor, metrics", saved.self, saved.disk)

\* main.cmd_train from its call of prepare_training_data on: no training
\* without a sample
cmd_train(data, arg, d) ==
    IF data.n_samples = 0
    THEN Outcome("None", "None", None, d)
    ELSE train_model(data, <<or_default(arg)>>, d)

\* predictor.predict_race(event, year, model_type), the event named: without
\* an artifact, or without prediction data (no columns), the result is an
\* empty DataFrame
predict_race(arg, race_columns, d) ==
    LET loaded == load(F1Predictor(arg), d)
    IN  IF loaded.error = "FileNotFoundError: No model found"
        THEN Outcome("None", "empty DataFrame", loaded.self, d)
        ELSE IF race_columns = {}
        THEN Outcome("None", "empty DataFrame", loaded.self, d)
        ELSE F1Predictor_predict_race(loaded.self, race_columns, get_feature_columns, d)

\* ------------------------------------------------ state machine (predictor)

\* the columns of the tables handed to the prediction methods
PredictionColumns == {<<"GridPosition">>, <<"GridPosition", "TrackTemp">>}

\* the call just made and its arguments, with what it raised and returned
Result(call, args, o) ==
    [call |-> call, args |-> args, error |-> o.error, value |-> o.value]

\* predictor = F1Predictor(model_type)
new_F1Predictor ==
    /\ self = None
    /\ \E arg \in ModelTypeArgs :
          /\ self' = F1Predictor(arg)
          /\ result' = [call |-> "F1Predictor", args |-> arg,
                        error |-> "None", value |-> "None"]
    /\ UNCHANGED <<disk, df, out, pc, window>>

self_train ==
    /\ self # None
    /\ \E data \in TrainingSets :
          LET o == train(self, data, disk)
          IN  /\ self' = o.self
              /\ disk' = o.disk
              /\ result' = Result("train", data, o)
    /\ UNCHANGED <<df, out, pc, window>>

self_cross_validate ==
    /\ self # None
    /\ \E data \in TrainingSets :
          LET o == cross_validate(self, data, disk)
          IN  /\ self' = o.self
              /\ disk' = o.disk
              /\ result' = Result("cross_validate", data, o)
    /\ UNCHANGED <<df, out, pc, window>>

self_get_feature_importance ==
    /\ self # None
    /\ LET o == get_feature_importance(self, disk)
       IN  /\ self' = o.self
           /\ disk' = o.disk
           /\ result' = Result("get_feature_importance", <<>>, o)
    /\ UNCHANGED <<df, out, pc, window>>

self_predict ==
    /\ self # None
    /\ \E cols \in PredictionColumns :
          LET o == predict(self, cols, disk)
          IN  /\ self' = o.self
              /\ disk' = o.disk
              /\ result' = Result("predict", cols, o)
    /\ UNCHANGED <<df, out, pc, window>>

self_predict_proba ==
    /\ self # None
    /\ \E cols \in PredictionColumns :
          LET o == predict_proba(self, cols, disk)
          IN  /\ self' = o.self
              /\ disk' = o.disk
              /\ result' = Result("predict_proba", cols, o)
    /\ UNCHANGED <<df, out, pc, window>>

self_predict_race ==
    /\ self # None
    /\ \E cols \in PredictionColumns :
          LET o == F1Predictor_predict_race(self, {cols[i] : i \in 1..Len(cols)},
                                            get_feature_columns, disk)
          IN  /\ self' = o.self
              /\ disk' = o.disk
              /\ result' = Result("predict_race", cols, o)
    /\ UNCHANGED <<df, out, pc, window>>

self_save ==
    /\ self # None
    /\ LET o == save(self, disk)
       IN  /\ self' = o.self
           /\ disk' = o.disk
           /\ result' = Result("save", <<>>, o)
    /\ UNCHANGED <<df, out, pc, window>>

self_load ==
    /\ self # None
    /\ LET o == load(self, disk)
       IN  /\ self' = o.self
           /\ disk' = o.disk
           /\ result' = Result("load", <<>>, o)
    /\ UNCHANGED <<df, out, pc, window>>

\* model.train_model(X, y, model_type), on a predictor of its own
call_train_model ==
    /\ \E data \in TrainingSets, arg \in ModelTypeArgs :
          LET o == train_model(data, arg, disk)
          IN  /\ disk' = o.disk
              /\ result' = Result("train_model", <<data, arg>>, o)
    /\ UNCHANGED <<self, df, out, pc, window>>

\* main.cmd_train, the model type one the command line accepts
call_cmd_train ==
    /\ \E data \in TrainingSets, arg \in {<<>>, <<"random_forest">>, <<"xgboost">>} :
          LET o == cmd_train(data, arg, disk)
          IN  /\ disk' = o.disk
              /\ result' = Result("cmd_train", <<data, arg>>, o)
    /\ UNCHANGED <<self, df, out, pc, window>>

\* predictor.predict_race(event, year, model_type), on a predictor of its own
call_predict_race ==
    /\ \E arg \in ModelTypeArgs, cols \in PredictionColumns \cup {<<>>} :
          LET o == predict_race(arg, {cols[i] : i \in 1..Len(cols)}, disk)
          IN  /\ disk' = o.disk
              /\ result' = Result("module predict_race", <<arg, cols>>, o)
    /\ UNCHANGED <<self, df, out, pc, window>>

NextPredictor ==
    \/ new_F1Predictor
    \/ self_train
    \/ self_cross_validate
    \/ self_get_feature_importance
    \/ self_predict
    \/ self_predict_proba
    \/ self_predict_race
    \/ self_save
    \/ self_load
    \/ call_train_model
    \/ call_cmd_train
    \/ call_predict_race

SpecPredictor == Init /\ [][NextPredictor]_vars

\* --------------------------------------------------------- model.py (ranking)

\* the orders of the positions 1..n
Orders(n) == {o \in [1..n -> 1..n] : \A i, j \in 1..n : o[i] = o[j] => i = j}

\* np.argsort(v) with the default kind 'quicksort': positions in ascending
\* order of value; quicksort is not a stable sort, so the order among equal
\* values is whatever the build produces
argsort(v) ==
    {o \in Orders(Len(v)) :
        \A i, j \in 1..Len(v) : i < j => ~Less(v[o[j]], v[o[i]])}

\* s[::-1]
Reverse(s) == [i \in 1..Len(s) |-> s[Len(s) + 1 - i]]

\* s[:n]
Slice(s, n) == SubSeq(s, 1, IF n < Len(s) THEN n ELSE Len(s))

\* y.iloc[indices]
iloc(y, indices) == [i \in 1..Len(indices) |-> y[indices[i]]]

\* the metric over the n lowest probabilities instead of the n highest
calculate_top_n_accuracy_lowest(y, sorted, n) ==
    MaxSeq(iloc(y, Slice(sorted, n)))

\* F1Predictor._calculate_top_n_accuracy(X, y, probs, n), where sorted is what
\* np.argsort(probs) returned
calculate_top_n_accuracy(y, sorted, n) ==
    LET sorted_indices == Slice(Reverse(sorted), n)
    IN  MaxSeq(iloc(y, sorted_indices))

\* the n of the last metric train reports (top5_accuracy)
MaxTopN == 5

\* train's two metrics and the ones between: np.argsort is a function of its
\* argument, so every call on the one y_prob array sorts it the same way
top_n_accuracies(y, sorted) ==
    [n \in 1..MaxTopN |-> calculate_top_n_accuracy(y, sorted, n)]

\* results.sort_values(c, ascending=False) with the default kind 'quicksort':
\* every table in descending order of c that the build can produce
sort_values_descending(tbl, c) ==
    {[i \in 1..Len(tbl) |-> tbl[Reverse(o)[i]]] : o \in argsort(Col(tbl, c))}

\* F1Predictor.predict_race after predict_proba: the results table, ranked
predict_race_results(race_data, probabilities) ==
    LET results == [k \in 1..Len(race_data) |->
                       [Driver |-> race_data[k].Driver,
                        Team |-> race_data[k].Team,
                        WinProbability |-> probabilities[k],
                        GridPosition |-> race_data[k].GridPosition]]
    IN  {[i \in 1..Len(results) |->
              [Driver |-> sorted[i].Driver, Team |-> sorted[i].Team,
               WinProbability |-> sorted[i].WinProbability,
               GridPosition |-> sorted[i].GridPosition,
               PredictedPosition |-> i]] :
            sorted \in sort_values_descending(results, "WinProbability")}

\* the probabilities a classifier gives the rows of a small table
Probabilities == {Frac(1, 10), Frac(1, 2)}

\* row k of a table of drivers with the label and the probability of each
RankRow(k, y, p) ==
    [Driver |-> Grid[k], Team |-> "Mercedes", GridPosition |-> Num(k),
     y_true |-> y, y_prob |-> p]

MaxRankRows == 4

\* ------------------------------------------------- state machine (ranking)

\* one more driver in the table
race_data_row ==
    /\ pc = "collect"
    /\ Len(df) < MaxRankRows
    /\ \E y \in {Num(0), Num(1)}, p \in Probabilities :
          df' = Append(df, RankRow(Len(df) + 1, y, p))
    /\ UNCHANGED <<out, pc, window, self, disk, result>>

\* F1Predictor.predict_race ranks the table
rank_race ==
    /\ pc = "collect"
    /\ out' \in predict_race_results(df, Col(df, "y_prob"))
    /\ pc' = "ranked"
    /\ UNCHANGED <<df, window, self, disk, result>>

\* F1Predictor.train evaluates the top-n metrics on the table as test set
evaluate_top_n ==
    /\ pc = "collect"
    /\ df # <<>>
    /\ \E sorted \in argsort(Col(df, "y_prob")) :
          out' = top_n_accuracies(Col(df, "y_true"), sorted)
    /\ pc' = "evaluated"
    /\ UNCHANGED <<df, window, self, disk, result>>

NextRanking ==
    \/ race_data_row
    \/ rank_race
    \/ evaluate_top_n

SpecRanking == Init /\ [][NextRanking]_vars

\* --------------------------------------------------------------- predictor.py

\* config.NEW_TEAM_DEFAULTS
NEW_TEAM_DEFAULTS ==
    [Cadillac |-> [baseline_constructor_position |-> Num(10),
                   reliability_factor |-> Frac(85, 100),
                   development_rate |-> Num(1)]]

\* DataFrame.tail(n)
tail(tbl, n) == SubSeq(tbl, IF Len(tbl) > n THEN Len(tbl) - n + 1 ELSE 1, Len(tbl))

\* a row with no column
NoColumns == [c \in {} |-> NaN]

\* the fields add_historical_features assigns from the driver's own history:
\* the recent form over the last w races and the record at the event
driver_stats(driver, event_name, historical_data, w) ==
    LET driver_history == SelectSeq(historical_data, LAMBDA x : x.Driver = driver)
        recent == tail(driver_history, w)
        track_history == SelectSeq(driver_history, LAMBDA x : x.EventName = event_name)
        form == [RecentAvgPosition |-> mean(Col(recent, "Position")),
                 RecentAvgPoints |-> mean(Col(recent, "Points")),
                 RecentWinRate |-> mean(Col(recent, "IsWinner")),
                 RecentPodiumRate |->
                    mean([k \in 1..Len(recent) |->
                            Bool2Int(recent[k].Position # NaN
                                     /\ ~Less(Num(3), recent[k].Position))])]
        track == [TrackAvgPosition |-> mean(Col(track_history, "Position")),
                  TrackBestPosition |->
                     IF NotNa(Col(track_history, "Position")) = <<>> THEN NaN
                     ELSE MinSeq(NotNa(Col(track_history, "Position"))),
                  TrackWinRate |-> mean(Col(track_history, "IsWinner")),
                  TrackRaceCount |-> Num(Len(track_history))]
    IN  IF driver_history = <<>> THEN NoColumns
        ELSE IF track_history = <<>> THEN form
        ELSE form @@ track

\* the team fields taken from the team's last w rows, not its last 2 * w
team_stats_one_window(team, historical_data, w) ==
    LET team_history == SelectSeq(historical_data, LAMBDA x : x.Team = team)
        recent_team == tail(team_history, w)
    IN  IF team_history # <<>>
        THEN [TeamAvgPosition |-> mean(Col(recent_team, "Position")),
              TeamSeasonWins |-> sum(Col(recent_team, "IsWinner"))]
        ELSE IF team \in DOMAIN NEW_TEAM_DEFAULTS
        THEN [TeamAvgPosition |->
                 Mul(NEW_TEAM_DEFAULTS[team].baseline_constructor_position, Num(2)),
              TeamSeasonWins |-> Num(0),
              TeamReliabilityFactor |-> NEW_TEAM_DEFAULTS[team].reliability_factor]
        ELSE [TeamAvgPosition |-> Num(15), TeamSeasonWins |-> Num(0)]

\* the fields add_historical_features assigns for the team: from its history,
\* from the new-team defaults, or the defaults of an unknown team
team_stats(team, historical_data, w) ==
    LET team_history == SelectSeq(historical_data, LAMBDA x : x.Team = team)
        recent_team == tail(team_history, w * 2)
    IN  IF team_history # <<>>
        THEN [TeamAvgPosition |-> mean(Col(recent_team, "Position")),
              TeamSeasonWins |-> sum(Col(recent_team, "IsWinner"))]
        ELSE IF team \in DOMAIN NEW_TEAM_DEFAULTS
        THEN [TeamAvgPosition |->
                 Mul(NEW_TEAM_DEFAULTS[team].baseline_constructor_position, Num(2)),
              TeamSeasonWins |-> Num(0),
              TeamReliabilityFactor |-> NEW_TEAM_DEFAULTS[team].reliability_factor]
        ELSE [TeamAvgPosition |-> Num(15), TeamSeasonWins |-> Num(0)]

\* add_historical_features(prediction_data, historical_data), w being
\* config.RECENT_RACES_WINDOW; a cell assigned for one row exists, null, in
\* the others
add_historical_features(prediction_data, historical_data, w) ==
    LET event_name == prediction_data[1].EventName
        assigned == [k \in 1..Len(prediction_data) |->
                        driver_stats(prediction_data[k].Driver, event_name,
                                     historical_data, w)
                        @@ team_stats(prediction_data[k].Team, historical_data, w)]
        columns == UNION {DOMAIN assigned[k] : k \in 1..Len(prediction_data)}
    IN  IF historical_data = <<>> THEN prediction_data
        ELSE [k \in 1..Len(prediction_data) |->
                [c \in columns |->
                    IF c \in DOMAIN assigned[k] THEN assigned[k][c] ELSE NaN]
                @@ prediction_data[k]]

\* the drivers of a qualifying session and their teams: a driver who changed
\* team, one who stayed, one of a new team with configured defaults, one of a
\* team that is not known at all
Entrants ==
    << [Driver |-> "HAM", Team |-> "Ferrari"],
       [Driver |-> "RUS", Team |-> "Mercedes"],
       [Driver |-> "BOT", Team |-> "Cadillac"],
       [Driver |-> "HAD", Team |-> "Racing Bulls"] >>

\* prepare_race_prediction_data's result for the last race of the calendar:
\* one row for each driver in the qualifying results, two drivers at a time
PredictionTables ==
    LET race == Calendar[Len(Calendar)]
        Row(k) == [Driver |-> Entrants[k].Driver, Team |-> Entrants[k].Team,
                   QualifyingPosition |-> Num(k), GridPosition |-> Num(k),
                   Year |-> race.Year, EventName |-> race.EventName]
    IN  {<<Row(i), Row(i + 1)>> : i \in 1..(Len(Entrants) - 1)}

\* the values config.RECENT_RACES_WINDOW is set to
PredictionWindows == {1, RECENT_RACES_WINDOW}

\* ----------------------------------------------- state machine (prediction)

\* predictor.predict_race after load: the prediction table gets its historical
\* fields from the cached table
call_add_historical_features ==
    /\ pc = "collect"
    /\ \E prediction_data \in PredictionTables, w \in PredictionWindows :
          /\ out' = add_historical_features(prediction_data, df, w)
          /\ window' = w
          /\ result' = [call |-> "add_historical_features",
                        args |-> prediction_data,
                        error |-> "None", value |-> "None"]
    /\ pc' = "historical"
    /\ UNCHANGED <<df, self, disk>>

NextPrediction ==
    \/ collect_race_data
    \/ call_add_historical_features

SpecPrediction == Init /\ [][NextPrediction]_vars

\* ----------------------------------------- data_collector.py (availability)

\* what the API gives for one event of the schedule. race: "no date" for a
\* future event, "failed" when loading the race session raises, "empty" when it
\* loads without results, "results" with n classified drivers (two here). Q, each FP and
\* laps: -1 when the session (or its laps) cannot be loaded, 0 when it loads
\* empty, else the number of drivers it has data for. A race session that is
\* not loaded gives nothing else.
Unavailable(race) ==
    [race |-> race, n |-> 0, Q |-> -1, FP |-> <<-1, -1, -1>>, laps |-> -1,
     weather |-> FALSE]

EventData ==
    {Unavailable(race) : race \in {"no date", "failed", "empty"}}
    \cup [race : {"results"}, n : {2}, Q : {-1, 0, 2},
          FP : {<<-1, -1, -1>>, <<1, 0, -1>>, <<3, 3, 3>>},
          laps : {-1, 0, 2}, weather : BOOLEAN]

\* extract_race_results of the race session of an event
extract_race_results(race, e) ==
    IF e.race # "results" THEN <<>>
    ELSE [k \in 1..e.n |->
            [Driver |-> Grid[k], Team |-> Label("Mercedes"),
             GridPosition |-> Num(k), Position |-> Num(k),
             Year |-> race.Year, EventName |-> race.EventName,
             Round |-> race.Round,
             IsWinner |-> Bool2Int(k = 1), IsPodium |-> Bool2Int(k <= 3)]]

\* extract_qualifying_results: the session's drivers are not those of the
\* race, the first race driver set no time and is not in its results
extract_qualifying_results(e) ==
    IF e.Q <= 0 THEN <<>>
    ELSE [k \in 1..e.Q |->
            [Driver |-> Grid[k + 1], Team |-> Label("Mercedes"),
             QualifyingPosition |-> Num(k)] @@ QualifyingLaps[k]]

\* extract_practice_results of practice session fp, with add_prefix and the
\* rename of its Driver column
extract_practice_results(e, fp) ==
    IF e.FP[fp] <= 0 THEN <<>>
    ELSE [k \in 1..e.FP[fp] |->
            (PracticeCols[fp] :> PracticeLaps[1][fp]) @@ [Driver |-> Grid[k]]]

\* extract_pit_stop_data of the race session
extract_pit_stop_data(e) ==
    IF e.laps <= 0 THEN <<>>
    ELSE [k \in 1..e.laps |->
            [Driver |-> Grid[k], PitStopCount |-> Num(k), TotalLaps |-> Num(50),
             PitStopFrequency |-> Frac(k, 50)]]

\* extract_weather_data of the race session
extract_weather_data(e) == IF e.weather THEN Weather[2] ELSE NoColumns

\* the columns of a table
ColumnsOf(tbl) == UNION {DOMAIN tbl[k] : k \in 1..Len(tbl)}

\* the right table of a merge with suffixes=('', '_quali'): its Team column
\* gets the suffix
suffix_quali(right) ==
    [k \in 1..Len(right) |->
        [c \in (DOMAIN right[k] \ {"Team"}) \cup {"Team_quali"} |->
            IF c = "Team_quali" THEN right[k].Team ELSE right[k][c]]]

\* a merge on Driver that keeps only the rows with a match
merge_inner(left, right) ==
    LET Matches(row) == SelectSeq(right, LAMBDA x : x.Driver = row.Driver)
    IN  concat([k \in 1..Len(left) |->
                  [i \in 1..Len(Matches(left[k])) |->
                      Matches(left[k])[i] @@ left[k]]])

\* left.merge(right, on='Driver', how='left'): every left row once for each
\* right row of its driver, and once with nulls when there is none
merge_left(left, right) ==
    LET Matches(row) == SelectSeq(right, LAMBDA x : x.Driver = row.Driver)
        nulls == [c \in ColumnsOf(right) |-> NaN]
    IN  concat([k \in 1..Len(left) |->
                  IF Matches(left[k]) = <<>> THEN <<left[k] @@ nulls>>
                  ELSE [i \in 1..Len(Matches(left[k])) |->
                          left[k] @@ Matches(left[k])[i]]])

\* the loop over fp_results
RECURSIVE merge_practice(_, _, _)
merge_practice(merged, e, fp) ==
    IF fp > Len(PracticeCols) THEN merged
    ELSE merge_practice(
            IF extract_practice_results(e, fp) = <<>> THEN merged
            ELSE merge_left(merged, extract_practice_results(e, fp)),
            e, fp + 1)

\* collect_race_data(year, event), e being what the API gives for the event
collect_race_data_merged(race, e) ==
    LET race_results == extract_race_results(race, e)
        quali_results == extract_qualifying_results(e)
        pit_data == extract_pit_stop_data(e)
        withQuali == IF quali_results = <<>> THEN race_results
                     ELSE merge_left(race_results, suffix_quali(quali_results))
        withPractice == merge_practice(withQuali, e, 1)
        withPit == IF pit_data = <<>> THEN withPractice
                   ELSE merge_left(withPractice, pit_data)
    IN  IF race_results = <<>> THEN <<>>
        ELSE [k \in 1..Len(withPit) |-> extract_weather_data(e) @@ withPit[k]]

\* the number of events of the schedule that are asked for
MaxCollectEvents == 2

\* ---------------------------------------------- state machine (availability)

\* the events collect_historical_data has been through
Log == result.args

\* the event is the first of its season
FirstOfSeason(i) == IF i = 1 THEN TRUE ELSE Calendar[i - 1].Year # Calendar[i].Year

\* the events of the season of event i
SeasonOf(i) == {j \in 1..Len(Calendar) : Calendar[j].Year = Calendar[i].Year}

\* collect_season_data's loop body inside collect_historical_data's: the next
\* event of the schedule is skipped when it has no date or no race results,
\* and appended to the rows collected so far otherwise
collect_season_data_event ==
    /\ pc = "collect"
    /\ Len(Log) < MaxCollectEvents
    /\ \E e \in EventData :
          LET race_data == IF e.race = "no date" THEN <<>>
                           ELSE collect_race_data_merged(Calendar[Len(Log) + 1], e)
          IN  /\ out' = race_data
              /\ df' = IF race_data = <<>> THEN df ELSE concat_fill(df, race_data)
              /\ result' = [call |-> "collect_historical_data",
                            args |-> Append(Log, e),
                            error |-> "None", value |-> "None"]
    /\ UNCHANGED <<pc, window, self, disk>>

\* collect_season_data with a schedule that cannot be fetched: the season is
\* skipped
collect_season_data_no_schedule ==
    /\ pc = "collect"
    /\ Len(Log) < MaxCollectEvents
    /\ FirstOfSeason(Len(Log) + 1)
    /\ out' = <<>>
    /\ result' = [call |-> "collect_historical_data",
                  args |-> Log \o [j \in 1..Cardinality(SeasonOf(Len(Log) + 1)) |->
                                      Unavailable("no schedule")],
                  error |-> "None", value |-> "None"]
    /\ UNCHANGED <<df, pc, window, self, disk>>

\* collect_historical_data returns the combined table and saves it
collect_historical_data_return ==
    /\ pc = "collect"
    /\ Log # <<>>
    /\ out' = df
    /\ pc' = "collected"
    /\ UNCHANGED <<df, window, self, disk, result>>

NextCollector ==
    \/ collect_season_data_event
    \/ collect_season_data_no_schedule
    \/ collect_historical_data_return

SpecCollector == Init /\ [][NextCollector]_vars

\* ------------------------------------------------------------------ claims

Rows(tbl) == {tbl[k] : k \in 1..Len(tbl)}

\* the row of tbl for the driver and race of row
RowOf(tbl, row) ==
    CHOOSE x \in Rows(tbl) : x.Driver = row.Driver /\ SameRace(x, row)

\* row with its outcome fields erased
Blank(row) ==
    [row EXCEPT !.Position = NaN, !.Points = Num(0),
                !.IsWinner = Num(0), !.IsPodium = Num(0)]

\* what is known of a driver before the race of row: the driver's strictly
\* earlier entries, and the entry itself without its outcome
OwnPast(tbl, row) ==
    SelectSeq(tbl, LAMBDA x : x.Driver = row.Driver /\ KeyLess(x, row))
        \o <<Blank(row)>>

\* the table with the outcome of the race of row and of every later race erased
BeforeRace(tbl, row) ==
    [k \in 1..Len(tbl) |->
        IF KeyLess(tbl[k], row) THEN tbl[k] ELSE Blank(tbl[k])]

FormTrackOf(x) ==
    <<x.RecentAvgPosition, x.RecentAvgPoints, x.RecentWinRate, x.RecentPodiumRate,
      x.TrackAvgPosition, x.TrackBestPosition, x.TrackWinRate, x.TrackRaceCount>>

\* C1: the Recent* and Track* values of every entry are those computed from the
\* driver's strictly earlier entries alone: no outcome of the entry's own race or
\* of a later race, and no entry of another driver, changes them
C1_FormTrackNoLeakage ==
    pc = "track" =>
        \A row \in Rows(df) :
            FormTrackOf(RowOf(out, row)) =
                FormTrackOf(RowOf(
                    calculate_historical_track_performance(
                        calculate_driver_recent_form(OwnPast(df, row), window)),
                    row))

\* C1 witness: an entry with earlier races and an earlier visit to the track, in
\* a race another driver also ran, with a finish of its own
C1_Witness ==
    /\ pc = "track"
    /\ \E x \in Rows(out) :
          /\ x.RecentAvgPosition # NaN
          /\ x.TrackAvgPosition # NaN
          /\ x.Position # NaN
          /\ \E y \in Rows(out) : y.Driver # x.Driver /\ SameRace(x, y)

\* the entries of the team of row, in the season of row, of strictly earlier
\* rounds
TeamBefore(tbl, row) ==
    SelectSeq(tbl,
        LAMBDA x : x.Team = row.Team /\ x.Year = row.Year /\ x.Round < row.Round)

\* C2: TeamSeasonPoints of an entry is the sum of the points of the team's
\* entries of the season in strictly earlier rounds, each counted once and none
\* of the entry's own round (null is accepted where there is no earlier round)
C2_TeamSeasonPoints ==
    pc = "team" =>
        \A x \in Rows(out) :
            \/ x.TeamSeasonPoints = sum(Col(TeamBefore(df, x), "Points"))
            \/ x.TeamSeasonPoints = NaN /\ TeamBefore(df, x) = <<>>

TeamOf3(x) == <<x.TeamSeasonPoints, x.TeamSeasonWins, x.TeamAvgPosition>>

\* C3: the Team* values of every entry are unchanged when the outcome fields of
\* the entry's own race (the team-mate's entry included) and of later races are
\* erased
C3_TeamNoLeakage ==
    pc = "team" =>
        \A row \in Rows(df) :
            TeamOf3(RowOf(out, row)) =
                TeamOf3(RowOf(
                    calculate_team_strength(
                        calculate_historical_track_performance(
                            calculate_driver_recent_form(BeforeRace(df, row), window))),
                    row))

\* C4: ChampionshipPoints of an entry is the sum of the driver's own points of
\* the season in strictly earlier rounds (null is accepted where the driver has
\* no earlier entry in the season)
C4_ChampionshipPoints ==
    pc = "championship" =>
        \A x \in Rows(out) :
            LET before == SelectSeq(df, LAMBDA y :
                              y.Driver = x.Driver /\ y.Year = x.Year /\ y.Round < x.Round)
            IN  \/ x.ChampionshipPoints = sum(Col(before, "Points"))
                \/ x.ChampionshipPoints = NaN /\ before = <<>>

\* the entries of a driver in (Year, Round) order
History(tbl, driver) == SelectSeq(sort_values(tbl), LAMBDA x : x.Driver = driver)

Min2(a, b) == IF a <= b THEN a ELSE b

\* the exact mean of a series without NaN
MeanOf(s) == LET t == SumSeq(s) IN Frac(t[1], t[2] * Len(s))

EarlierVisits(tbl, row) ==
    {y \in Rows(tbl) :
        y.Driver = row.Driver /\ y.EventName = row.EventName /\ KeyLess(y, row)}

\* C6: TrackRaceCount is the number of the driver's strictly earlier entries at
\* the event; on the first visit it is 0 and TrackAvgPosition is null
C6_TrackRaceCount ==
    pc = "track" =>
        \A x \in Rows(out) :
            /\ x.TrackRaceCount = Num(Cardinality(EarlierVisits(df, x)))
            /\ EarlierVisits(df, x) = {} =>
                  x.TrackRaceCount = Num(0) /\ x.TrackAvgPosition = NaN

\* C6 witness: a second visit to a track, and a first visit to a track by a
\* driver who has raced before
C6_Witness ==
    /\ pc = "track"
    /\ \E x \in Rows(out) : x.TrackRaceCount = Num(1)
    /\ \E x \in Rows(out) :
          /\ x.TrackRaceCount = Num(0)
          /\ \E y \in Rows(df) : y.Driver = x.Driver /\ KeyLess(y, x)

\* C7: over the visits of a driver to a track in (Year, Round) order, the
\* non-null TrackBestPosition values never increase
C7_TrackBestMonotonic ==
    pc = "track" =>
        \A x, y \in Rows(out) :
            (/\ x.Driver = y.Driver
             /\ x.EventName = y.EventName
             /\ KeyLess(x, y)
             /\ x.TrackBestPosition # NaN
             /\ y.TrackBestPosition # NaN)
                => ~Less(x.TrackBestPosition, y.TrackBestPosition)

\* C7 witness: three visits, the second without a finish and worse finishes
\* around it: the best of the second and of the third visit are both the first
\* finish
C7_Witness ==
    /\ pc = "track"
    /\ \E x, y \in Rows(out) :
          /\ x.Driver = y.Driver
          /\ x.EventName = y.EventName
          /\ KeyLess(x, y)
          /\ x.Position = NaN
          /\ x.TrackBestPosition # NaN
          /\ y.TrackBestPosition = x.TrackBestPosition
          /\ y.Position # NaN

\* the entries of the race of row whose ChampionshipPoints exceed those of row
AheadOf(tbl, row) ==
    {y \in Rows(tbl) :
        /\ SameRace(y, row)
        /\ y.ChampionshipPoints # NaN
        /\ Less(row.ChampionshipPoints, y.ChampionshipPoints)}

\* C8: within a race, an entry with ChampionshipPoints has the rank 1 + the
\* number of entries of the race with strictly more ChampionshipPoints: equal
\* points share a rank and the most points have rank 1
C8_ChampionshipPosition ==
    pc = "championship" =>
        \A x \in Rows(out) :
            x.ChampionshipPoints # NaN =>
                x.ChampionshipPosition = Num(1 + Cardinality(AheadOf(out, x)))

\* C8 witness: a race with two entries of equal ChampionshipPoints, both ranked 1
C8_Witness ==
    /\ pc = "championship"
    /\ \E x, y \in Rows(out) :
          /\ SameRace(x, y)
          /\ x # y
          /\ x.ChampionshipPoints # NaN
          /\ x.ChampionshipPoints = y.ChampionshipPoints
          /\ x.ChampionshipPosition = Num(1)
          /\ y.ChampionshipPosition = Num(1)

\* the entries of the race of row
RaceOf(tbl, row) == {y \in Rows(tbl) : SameRace(y, row)}

\* C9: in a race of n >= 2 drivers with qualifying positions 1..n, the pole
\* sitter has QualifyingPercentile 1 and the last qualifier 0; positions
\* [1, 2, 3, 4] give [1, 2/3, 1/3, 0]
C9_QualifyingPercentile ==
    (pc = "qualifying" /\ HasColumn(out, "QualifyingPosition")) =>
        \A x \in Rows(out) :
            LET n == Cardinality(RaceOf(out, x))
            IN  (n >= 2 /\ {y.QualifyingPosition : y \in RaceOf(out, x)} = {Num(k) : k \in 1..n})
                    => /\ x.QualifyingPosition = Num(1) => x.QualifyingPercentile = Num(1)
                       /\ x.QualifyingPosition = Num(n) => x.QualifyingPercentile = Num(0)
                       /\ n = 4 => x.QualifyingPercentile = Frac(4 - x.QualifyingPosition[1], 3)

\* the qualifying laps of an entry
LapsOf(x) == NotNa(<<x.Q1_seconds, x.Q2_seconds, x.Q3_seconds>>)

\* C10 as stated, in what every reading of "pole time" shares: an entry with a
\* lap in any part of qualifying (Q1, Q2 or Q3) has a QualifyingGap that is
\* defined and not negative, 0 for the pole sitter
C10_QualifyingGapBestLap ==
    (pc = "qualifying" /\ HasColumn(out, "Q3_seconds")) =>
        \A x \in Rows(out) :
            LapsOf(x) # <<>> =>
                /\ x.QualifyingGap # NaN
                /\ ~Less(x.QualifyingGap, Num(0))
                /\ x.QualifyingPosition = Num(1) => x.QualifyingGap = Num(0)

\* the Q3 laps of the race of row
Q3OfRace(tbl, row) == {y.Q3_seconds : y \in RaceOf(tbl, row)} \ {NaN}

\* C10 as amended: an entry with a Q3 lap has as QualifyingGap that lap minus the
\* fastest Q3 lap of its race, not negative and 0 for the fastest; an entry
\* without a Q3 lap has a null QualifyingGap, whatever its Q1 and Q2 laps
C10_QualifyingGapQ3 ==
    (pc = "qualifying" /\ HasColumn(out, "Q3_seconds")) =>
        \A x \in Rows(out) :
            IF x.Q3_seconds = NaN THEN x.QualifyingGap = NaN
            ELSE LET pole == CHOOSE t \in Q3OfRace(out, x) :
                                \A u \in Q3OfRace(out, x) : ~Less(u, t)
                 IN  /\ x.QualifyingGap = Sub(x.Q3_seconds, pole)
                     /\ ~Less(x.QualifyingGap, Num(0))
                     /\ x.Q3_seconds = pole => x.QualifyingGap = Num(0)

\* C10 witness: one of two races; in it the pole sitter, a driver two tenths
\* behind in Q3, and a driver out before Q3 whose gap is null
C10_Witness ==
    /\ pc = "qualifying"
    /\ HasColumn(out, "Q3_seconds")
    /\ \E x, y, z \in Rows(out) :
          /\ SameRace(x, y) /\ SameRace(x, z)
          /\ x.QualifyingPosition = Num(1) /\ x.QualifyingGap = Num(0)
          /\ y.QualifyingGap = Frac(1, 5)
          /\ LapsOf(z) # <<>> /\ z.QualifyingGap = NaN
          /\ \E v \in Rows(out) : ~SameRace(v, x)

\* C11: each context extractor (calculate_qualifying_features,
\* calculate_practice_pace, calculate_weather_features,
\* calculate_pit_stop_features) is total: on every table, one where a source
\* column is absent and one where a present source column holds nulls in some
\* rows included, it returns a table without raising, one row for each row of
\* its input, and leaves the derived value null where the source is missing.
C11_ContextExtractorsTotal ==
    /\ pc # "ValueError"
    /\ pc \in {"qualifying", "practice", "weather", "pit"} => Len(out) = Len(df)
    /\ pc = "pit" =>
          \A x \in Rows(out) :
              /\ (HasColumn(out, "Q3_seconds") /\ x.Q3_seconds = NaN)
                    => x.QualifyingGap = NaN
              /\ (HasColumn(out, "QualifyingPosition") /\ x.QualifyingPosition = NaN)
                    => x.QualifyingPercentile = NaN
              /\ (practice_cols(out) # <<>>
                    /\ NotNa(RowValues(x, practice_cols(out))) = <<>>)
                    => x.BestPracticePace = NaN /\ x.PracticeConsistency = NaN
              /\ (HasColumn(out, "TrackTemp") /\ x.TrackTemp = NaN)
                    => \A i \in 1..Len(TempDummies) : x[TempDummies[i]] = False

\* C12: for every entry with a non-null TrackTemp t, calculate_weather_features
\* sets exactly one of Temp_cold, Temp_mild, Temp_hot: Temp_cold iff t <= 25,
\* Temp_mild iff 25 < t <= 40, Temp_hot iff t > 40, whatever t is (t <= 0 and
\* t > 100 included).
C12_TempOneHot ==
    (pc \in {"weather", "pit"} /\ HasColumn(out, "TrackTemp")) =>
        \A x \in Rows(out) :
            x.TrackTemp # NaN =>
                /\ x.Temp_cold = True <=> ~Less(Num(25), x.TrackTemp)
                /\ x.Temp_mild = True <=>
                        (Less(Num(25), x.TrackTemp) /\ ~Less(Num(40), x.TrackTemp))
                /\ x.Temp_hot = True <=> Less(Num(40), x.TrackTemp)

\* C13: calculate_pit_stop_features gives every entry a PitStopStrategy bucket:
\* one_stop for a count <= 1 (0 included), two_stop for 2, three_stop for 3,
\* multi_stop for a count > 3 (counts above 10 included), and two_stop for a
\* missing count.
C13_PitStopStrategy ==
    (pc = "pit" /\ HasColumn(out, "PitStopCount")) =>
        \A x \in Rows(out) :
            x.PitStopStrategy =
                IF x.PitStopCount = NaN THEN Label("two_stop")
                ELSE IF ~Less(Num(1), x.PitStopCount) THEN Label("one_stop")
                ELSE IF x.PitStopCount = Num(2) THEN Label("two_stop")
                ELSE IF x.PitStopCount = Num(3) THEN Label("three_stop")
                ELSE Label("multi_stop")

IsCanonical(c) == \E i \in 1..Len(get_feature_columns) : get_feature_columns[i] = c

CanonicalIndex(c) ==
    CHOOSE i \in 1..Len(get_feature_columns) : get_feature_columns[i] = c

\* C14: the feature-name list prepare_training_data returns is exactly the
\* canonical names of get_feature_columns that are columns of the input table,
\* in canonical order, and the columns of X are that list in that order; a
\* canonical name the table lacks is left out and no other column enters X.
C14_FeatureNames ==
    pc = "prepared" =>
        LET names == out.feature_names
        IN  /\ \A i \in 1..Len(names) :
                  IsCanonical(names[i]) /\ names[i] \in Columns(df)
            /\ \A c \in Columns(df) :
                  IsCanonical(c) => \E i \in 1..Len(names) : names[i] = c
            /\ \A i, j \in 1..Len(names) :
                  i < j => CanonicalIndex(names[i]) < CanonicalIndex(names[j])
            /\ out.columns = names
            /\ \A k \in 1..Len(out.X) : Len(out.X[k]) = Len(names)

\* a table with two canonical columns, held in the other order, and a column
\* that is not canonical
C14_Witness ==
    /\ pc = "prepared"
    /\ Columns(df) = {"Driver", "IsWinner", "Points", "TrackTemp", "GridPosition"}
    /\ out.feature_names = <<"GridPosition", "TrackTemp">>
    /\ Len(out.X) >= 1

\* the rows of tbl that have a label, by index, in order
Survivors(tbl) ==
    SelectSeq([k \in 1..Len(tbl) |-> k], LAMBDA k : tbl[k].IsWinner # NaN)

\* the median of the values v by rank: the mean of the values at the ranks
\* (n + 1) div 2 and n div 2 + 1
RankMedian(v) ==
    LET n == Len(v)
        At(p) == CHOOSE x \in {v[j] : j \in 1..n} :
                    /\ Cardinality({j \in 1..n : Less(v[j], x)}) < p
                    /\ p <= Cardinality({j \in 1..n : ~Less(x, v[j])})
    IN  IF n = 0 THEN NaN
        ELSE Div(Add(At((n + 1) \div 2), At(n \div 2 + 1)), Num(2))

\* C15: prepare_training_data drops every row whose IsWinner is null and only
\* then imputes: X and y have one aligned row for each surviving row, a value
\* that is not null is kept, and a null is replaced by the median of its column
\* over the surviving rows only.
C15_DropThenImpute ==
    pc = "prepared" =>
        LET s == Survivors(df)
            names == out.feature_names
        IN  /\ Len(out.X) = Len(s)
            /\ Len(out.y) = Len(s)
            /\ \A j \in 1..Len(s) :
                  /\ out.y[j] = df[s[j]].IsWinner
                  /\ \A i \in 1..Len(names) :
                        out.X[j][i] =
                            IF df[s[j]][names[i]] # NaN THEN df[s[j]][names[i]]
                            ELSE RankMedian(NotNa([k \in 1..Len(s) |->
                                                    df[s[k]][names[i]]]))

\* a null imputed with a median that a dropped row would have changed
C15_Witness ==
    /\ pc = "prepared"
    /\ Len(out.X) < Len(df)
    /\ \E j \in 1..Len(out.X), i \in 1..Len(out.feature_names) :
          /\ df[Survivors(df)[j]][out.feature_names[i]] = NaN
          /\ out.X[j][i] # NaN
          /\ out.X[j][i] # RankMedian(NotNa(Col(df, out.feature_names[i])))

\* the methods that need a trained predictor
GuardedCalls ==
    {"predict", "predict_proba", "predict_race", "get_feature_importance", "save"}

NotTrainedError == "ValueError: Model not trained yet"

\* C16: an F1Predictor starts Untrained; a train or load that returns moves it
\* to Trained; and whatever is called next (train, load, cross_validate,
\* predict, predict_proba, predict_race, get_feature_importance, save, calls
\* that raise included), a predictor that is Trained is never Untrained again.
C16_TrainedIsIrreversible ==
    [][ /\ (self = None /\ self' # None) => ~self'.is_trained
        /\ (self' # None /\ result'.call \in {"train", "load"}
                /\ result'.error = "None") => self'.is_trained
        /\ (self # None /\ self.is_trained) => (self' # None /\ self'.is_trained)
      ]_vars

\* a Trained predictor whose last train raised
C16_Witness ==
    /\ self # None
    /\ self.is_trained
    /\ result.call = "train"
    /\ result.error = "ValueError: train_test_split"

\* C17: on an Untrained predictor each of predict, predict_proba, predict_race,
\* get_feature_importance and save fails with the model-not-trained error
\* before anything else: nothing is returned, no artifact is written, and
\* model, feature_names, model_type and is_trained are as they were.
C17_UntrainedCallsFail ==
    [][ (self # None /\ ~self.is_trained /\ result'.call \in GuardedCalls) =>
            /\ result'.error = NotTrainedError
            /\ result'.value = "None"
            /\ disk' = disk
            /\ self' = self
      ]_vars

\* a save refused on a predictor left Untrained by a train that raised in fit
C17_Witness ==
    /\ self # None
    /\ ~self.is_trained
    /\ self.model # None
    /\ result.call = "save"
    /\ result.error = NotTrainedError

\* C18: constructing an F1Predictor with a model kind other than
\* 'random_forest' or 'xgboost' fails at construction time: no instance of an
\* unrecognized kind exists, and no requested kind is silently replaced by the
\* configured default.
C18_InvalidKindRejected ==
    /\ self # None => self.model_type \in {"random_forest", "xgboost"}
    /\ (result.call = "F1Predictor" /\ result.args # <<>>) =>
            self.model_type = result.args[1]

\* C19: when no row is left after the label filter, training fails explicitly:
\* F1Predictor.train on an empty (X, y) raises without fitting a classifier and
\* an Untrained predictor stays Untrained, and train_model and cmd_train write
\* no artifact.
C19_EmptyTrainingFails ==
    [][ /\ (self # None /\ result'.call = "train" /\ result'.args.n_samples = 0) =>
              /\ result'.error # "None"
              /\ self'.model = self.model
              /\ self'.is_trained = self.is_trained
        /\ (result'.call \in {"train_model", "cmd_train"}
                /\ result'.args[1].n_samples = 0) => disk' = disk
      ]_vars

\* a train on an empty set that raised, with an artifact on disk
C19_Witness ==
    /\ self # None
    /\ ~self.is_trained
    /\ result.call = "train"
    /\ result.args.n_samples = 0
    /\ result.error = "ValueError: train_test_split"
    /\ \E t \in ArtifactTypes : disk[t] # None

\* C20: F1Predictor.load without an artifact at the expected path raises the
\* no-model-found error and leaves model, feature_names, model_type and
\* is_trained as they were; the module's predict_race then returns an empty
\* result, never a ranking.
C20_LoadWithoutArtifact ==
    [][ /\ (self # None /\ result'.call = "load" /\ disk[self.model_type] = None) =>
              /\ result'.error = "FileNotFoundError: No model found"
              /\ self' = self
              /\ disk' = disk
        /\ (result'.call = "module predict_race"
                /\ disk[or_default(result'.args[1])] = None) =>
              /\ result'.error = "None"
              /\ result'.value = "empty DataFrame"
              /\ disk' = disk
      ]_vars

\* predict_race without the artifact of its model type, another one on disk
C20_Witness ==
    /\ result.call = "module predict_race"
    /\ result.args[2] # <<>>
    /\ disk[or_default(result.args[1])] = None
    /\ \E t \in ArtifactTypes : disk[t] # None
    /\ result.value = "empty DataFrame"

\* C21: whenever a Trained F1Predictor computes probabilities in predict_race,
\* the columns handed to the classifier are exactly the feature_names list
\* fixed at training time (or restored by load), in that order; the list is
\* never recomputed from the caller's feature_cols or the columns of the race
\* table.
C21_SavedFeatureNamesUsed ==
    (self # None /\ self.is_trained /\ result.call = "predict_race") =>
        race_available_features(Rows(result.args), get_feature_columns)
            = self.feature_names

\* C28: in every reachable state of an F1Predictor, is_trained = True implies
\* that model is a classifier whose fit completed and that feature_names is
\* exactly the column list that classifier was fit on, after any sequence of
\* train and load calls, a raising train on a Trained instance included.
C28_TrainedMeansFitted ==
    (self # None /\ self.is_trained) =>
        IF self.model = None THEN FALSE
        ELSE /\ self.model.fitted
             /\ self.model.feature_names_in = self.feature_names

\* the unit an artifact holds: classifier, kind and feature names
UnitOf(p) ==
    [model |-> p.model, model_type |-> p.model_type,
     feature_names |-> p.feature_names]

\* C25: a successful save writes the model, model_type and feature_names of
\* the predictor as one artifact at the place of its kind and touches no
\* other artifact; a successful load into a predictor of that kind makes it
\* Trained with exactly the three values of that artifact, so saving and then
\* loading into a fresh F1Predictor of the same kind gives back what was
\* saved.
C25_SaveLoadRoundTrip ==
    [][/\ (result'.call = "save" /\ result'.error = "None") =>
            /\ self.is_trained
            /\ disk' = [disk EXCEPT ![self.model_type] = UnitOf(self)]
            /\ disk'[self.model_type].model_type = self.model_type
       /\ (result'.call = "load" /\ result'.error = "None") =>
            /\ disk[self.model_type] # None
            /\ UnitOf(self') = disk[self.model_type]
            /\ self'.is_trained
            /\ self'.model_type = self.model_type
            /\ disk' = disk]_vars

\* a fresh predictor has loaded the artifact that a trained one saved
C25_Witness ==
    /\ result.call = "load"
    /\ result.error = "None"
    /\ self.is_trained
    /\ self.feature_names = <<"GridPosition", "TrackTemp">>
    /\ UnitOf(self) = disk[self.model_type]

\* C29: the feature matrix X returned by prepare_training_data contains no
\* null value, for every input table with at least one row whose label is not
\* null, tables with a feature column null in every surviving row included.
C29_NoNullInX ==
    (pc = "prepared" /\ Survivors(df) # <<>>) =>
        \A j \in 1..Len(out.X) : \A i \in 1..Len(out.X[j]) : out.X[j][i] # NaN

\* the place a ranked row had in the input table
InputIndex(row) == CHOOSE k \in 1..Len(df) : df[k].Driver = row.Driver

\* C22: for N input rows predict_race returns N rows whose PredictedPosition
\* values are exactly 1..N, each once, with WinProbability non-increasing in
\* PredictedPosition, and rows of equal WinProbability keep their input order.
C22_StableRanking ==
    pc = "ranked" =>
        /\ Len(out) = Len(df)
        /\ \A k \in 1..Len(out) : out[k].PredictedPosition = k
        /\ \A k \in 1..Len(df) : \E i \in 1..Len(out) :
              /\ out[i].Driver = df[k].Driver
              /\ out[i].WinProbability = df[k].y_prob
        /\ \A i, j \in 1..Len(out) : i < j =>
              /\ ~Less(out[i].WinProbability, out[j].WinProbability)
              /\ out[i].WinProbability = out[j].WinProbability =>
                    InputIndex(out[i]) < InputIndex(out[j])

\* the rows with a higher probability than row k
Above(k) == {j \in 1..Len(df) : Less(df[k].y_prob, df[j].y_prob)}

\* the rows with a probability not lower than row k, itself included
NotBelow(k) == {j \in 1..Len(df) : ~Less(df[j].y_prob, df[k].y_prob)}

\* C23: the top-n metric never falls as n grows, so top-5 is never below
\* top-3; it is 1 only when a true winner can be among the n rows of highest
\* probability of the test set, and always when one must be.
C23_TopNMonotone ==
    pc = "evaluated" =>
        /\ \A m, n \in 1..MaxTopN : m <= n => ~Less(out[n], out[m])
        /\ \A n \in 1..MaxTopN :
              /\ out[n] \in {Num(0), Num(1)}
              /\ out[n] = Num(1) =>
                    \E k \in 1..Len(df) :
                        df[k].y_true = Num(1) /\ Cardinality(Above(k)) < n
              /\ (\E k \in 1..Len(df) :
                    df[k].y_true = Num(1) /\ Cardinality(NotBelow(k)) <= n)
                 => out[n] = Num(1)

\* the winner is missed by the top 1 and found by the top 3
C23_Witness ==
    /\ pc = "evaluated"
    /\ Len(df) = MaxRankRows
    /\ out[1] = Num(0)
    /\ out[2] = Num(0)
    /\ out[3] = Num(1)
    /\ out[5] = Num(1)

\* the rows of the historical table of the team of a prediction row
TeamHistory(row) == SelectSeq(df, LAMBDA x : x.Team = row.Team)

\* the rows of the historical table of the driver of a prediction row
DriverHistory(row) == SelectSeq(df, LAMBDA x : x.Driver = row.Driver)

\* the last n elements of a sequence, fewer when it is shorter
LastOf(s, n) == [k \in 1..Min2(n, Len(s)) |-> s[Len(s) - Min2(n, Len(s)) + k]]

\* C24: with a historical table that is not empty, every prediction row takes
\* exactly one of three team branches: a team with history gets
\* TeamAvgPosition and TeamSeasonWins from its trailing 2*W rows; a team
\* without history that is in NEW_TEAM_DEFAULTS gets twice its baseline
\* position (20 for the baseline 10) and 0 wins; any other team gets 15 and 0.
C24_TeamBranches ==
    (pc = "historical" /\ df # <<>>) =>
        \A k \in 1..Len(out) :
            LET last == LastOf(TeamHistory(out[k]), 2 * window)
                finished == NotNa([i \in 1..Len(last) |-> last[i].Position])
                wins == Cardinality({i \in 1..Len(last) : last[i].IsWinner = Num(1)})
            IN  IF TeamHistory(out[k]) # <<>>
                THEN /\ out[k].TeamAvgPosition =
                            IF finished = <<>> THEN NaN ELSE MeanOf(finished)
                     /\ out[k].TeamSeasonWins = Num(wins)
                ELSE IF out[k].Team = "Cadillac"
                THEN /\ out[k].TeamAvgPosition = Num(20)
                     /\ out[k].TeamSeasonWins = Num(0)
                ELSE /\ out[k].TeamAvgPosition = Num(15)
                     /\ out[k].TeamSeasonWins = Num(0)

\* a team whose history is longer than 2*W next to a new team with defaults
C24_Witness ==
    /\ pc = "historical"
    /\ \E k \in 1..Len(out) :
          /\ Len(TeamHistory(out[k])) > 2 * window
          /\ TeamHistory(out[k])[1].Position # NaN
          /\ out[k].TeamAvgPosition # mean(Col(TeamHistory(out[k]), "Position"))
    /\ \E k \in 1..Len(out) :
          out[k].Team = "Cadillac" /\ out[k].TeamAvgPosition = Num(20)

\* the column c of a row has a value
Populated(row, c) == IF c \in DOMAIN row THEN row[c] # NaN ELSE FALSE

\* C26: for a prediction row whose driver and team both have rows in the
\* historical table, add_historical_features populates every historical field
\* family: the Recent fields, the Track fields when the driver has been at the
\* event, the Team fields with TeamSeasonPoints, and ChampionshipPosition,
\* ChampionshipPoints and PointsToLeader.
C26_AllFamiliesPopulated ==
    pc = "historical" =>
        \A k \in 1..Len(out) :
            (DriverHistory(out[k]) # <<>> /\ TeamHistory(out[k]) # <<>>) =>
                /\ \A c \in {"RecentAvgPoints", "RecentWinRate", "RecentPodiumRate",
                             "TeamSeasonWins", "TeamSeasonPoints",
                             "ChampionshipPosition", "ChampionshipPoints",
                             "PointsToLeader"} : Populated(out[k], c)
                /\ \A c \in {"RecentAvgPosition", "TeamAvgPosition"} :
                      c \in DOMAIN out[k]
                /\ (\E x \in Rows(DriverHistory(out[k])) :
                        x.EventName = out[k].EventName) =>
                      \A c \in {"TrackAvgPosition", "TrackBestPosition",
                                "TrackWinRate", "TrackRaceCount"} :
                          c \in DOMAIN out[k]

\* C30: after add_historical_features returns, every prediction row has
\* TeamAvgPosition and TeamSeasonWins assigned, whatever historical table was
\* passed in, an empty one included.
C30_TeamFieldsAssigned ==
    pc = "historical" =>
        \A k \in 1..Len(out) :
            /\ "TeamAvgPosition" \in DOMAIN out[k]
            /\ Populated(out[k], "TeamSeasonWins")
            /\ TeamHistory(out[k]) = <<>> => Populated(out[k], "TeamAvgPosition")

\* the value of a column in a row, null when the row has no such column
Cell(row, c) == IF c \in DOMAIN row THEN row[c] ELSE NaN

\* the events of the log that had race results
Collected == {i \in 1..Len(Log) : Log[i].race = "results"}

\* the rows collected before event i
RowsBefore(i) ==
    Cardinality({p \in Collected \X (1..2) : p[1] < i /\ p[2] <= Log[p[1]].n})

\* the race results of driver k are in the row, and each session that gave
\* data for the driver has its columns in it, whatever the other sessions did
OneRaceRow(row, race, e, k) ==
    /\ row.Driver = Grid[k]
    /\ row.Year = race.Year /\ row.Round = race.Round
    /\ row.Position = Num(k) /\ row.GridPosition = Num(k)
    /\ Cell(row, "QualifyingPosition") =
            IF e.Q >= k /\ k >= 2 THEN Num(k - 1) ELSE NaN
    /\ \A fp \in 1..Len(PracticeCols) :
            Cell(row, PracticeCols[fp]) =
                IF e.FP[fp] >= k THEN PracticeLaps[1][fp] ELSE NaN
    /\ Cell(row, "PitStopCount") = IF e.laps >= k THEN Num(k) ELSE NaN
    /\ Cell(row, "TrackTemp") = IF e.weather THEN Weather[2].TrackTemp ELSE NaN

\* C27: data-availability failures are absorbed: a failed or empty
\* qualifying, practice or pit-stop session leaves collect_race_data's result
\* with exactly one row for each driver of the race results, only the columns
\* of that session missing; a failed or empty race session gives an empty
\* result; and collect_season_data and collect_historical_data skip every race
\* or season with an empty result and keep the rows of all the others.
C27_FailuresAbsorbed ==
    result.call = "collect_historical_data" =>
        /\ Len(df) = RowsBefore(Len(Log) + 1)
        /\ \A i \in Collected : \A k \in 1..Log[i].n :
              OneRaceRow(df[RowsBefore(i) + k], Calendar[i], Log[i], k)
        /\ pc = "collect" =>
              LET e == Log[Len(Log)]
              IN  IF e.race # "results" THEN out = <<>>
                  ELSE /\ Len(out) = e.n
                       /\ \A k \in 1..e.n :
                             OneRaceRow(out[k], Calendar[Len(Log)], e, k)
                       /\ \A k \in 1..e.n :
                             /\ "QualifyingPosition" \in DOMAIN out[k] <=> e.Q > 0
                             /\ "PitStopCount" \in DOMAIN out[k] <=> e.laps > 0
                             /\ \A fp \in 1..Len(PracticeCols) :
                                   PracticeCols[fp] \in DOMAIN out[k] <=> e.FP[fp] > 0
        /\ pc = "collected" => out = df

\* a race without results is skipped, and a race whose qualifying session
\* failed and whose practice data is partial is kept with both its drivers
C27_Witness ==
    /\ result.call = "collect_historical_data"
    /\ pc = "collected"
    /\ Len(Log) = 2
    /\ Log[1].race = "failed"
    /\ Log[2].race = "results" /\ Log[2].n = 2
    /\ Log[2].Q = -1 /\ Log[2].FP = <<1, 0, -1>> /\ Log[2].laps = 2
    /\ Len(out) = 2
    /\ out[2].Driver = "LEC"
    /\ out[2].FP1_LapTime_seconds = NaN
    /\ out[2].PitStopCount = Num(2)

====
